---- MODULE Spec2Model ----
(***************************************************************************)
(* Governance and access-control core of the Solid healthcare front-end:   *)
(* the grant / acknowledge / revoke state kept in the governance pod, the  *)
(* doctor gate, the doctor's load sequence and file actions, the           *)
(* revocation poller, and the read-back of the access-control document.    *)
(*                                                                         *)
(* The repository carries two revisions of the application shell and of    *)
(* the access-control reader.  Both are modelled; the variables app and    *)
(* acpImpl say which revision a behaviour runs.                            *)
(***************************************************************************)
EXTENDS Integers, Sequences, FiniteSets, TLC

\* ------------------------------------------------------------------------
\* Bounds of the model
\* ------------------------------------------------------------------------

\* uuid() returns a value never returned before.  The model numbers the
\* values by what they name (grants, audit events, file entries) and by the
\* order in which they are stored; a value that is drawn and then lost with
\* a failed request names nothing and is not counted.

\* number of grants a behaviour may store
MaxGrants == 2

\* number of audit events a behaviour may store
MaxEvents == 4

\* number of file entries a behaviour may store
MaxFiles == 1

\* number of entries of a files resource that is given rather than built
MaxListed == 3

\* number of audit events appended before the audit trail is listed
MaxAppended == 2

\* the latest reading of the clock when the audit trail is listed
MaxClock == 1

\* the members the audit-events container can hold when its member reads are
\* followed one by one
MaxMembers == 17

\* ------------------------------------------------------------------------
\* Identities, locations, constants of the program
\* ------------------------------------------------------------------------

DOCTOR_WEBID == "doctor"
GOVERNANCE_WEBID == "governance"
EMERGENCY_WEBID == "emergency"

\* two of the four entries of the PATIENTS table, by web id
PATIENTS == {"patient1", "patient2"}

TERMS_VERSION == "v1.0"
TERMS_TEXT == "Data Use Notice"

\* GOV.termsUrl
termsUrl == "notices/terms/v1.txt"

\* null / undefined, for a value that is an object, a text, a number, an
\* identifier or a location
Null == [null |-> TRUE]
NoText == "null"
NoStatus == -1
NoId == -1
NoUrl == << >>

\* body of a resource that is not valid JSON
Malformed == [malformed |-> TRUE]

\* sha256Hex, taken to be collision free: the digest stands for its input
sha256Hex(text) == <<"sha256", text>>

\* patientHealthContainerUrl: new URL("health/", podBaseUrl)
HealthContainerUrl(p) == <<p, "health/">>

\* a variant of makeKey that leaves the doctor out of the digest
makeKeyNoDoctor(patientWebId, doctorWebId, scopeUrl) ==
  sha256Hex(<<patientWebId, "::">> \o scopeUrl)

\* makeKey: 20 hex digits of the digest of the text
\* `${patientWebId}::${doctorWebId}::${scopeUrl}`, a text being the sequence
\* of its pieces; the 20 digits are taken to be collision free as the digest
makeKey(patientWebId, doctorWebId, scopeUrl) ==
  sha256Hex(<<patientWebId, "::", doctorWebId, "::">> \o scopeUrl)

stateUrlForKey(key) == <<"grants/state/", key>>

\* a variant of ackUrlFor that names the location by the key alone, as a
\* design with one acknowledgement per triple would
ackUrlForKey(key, grantId) == <<"grants/acks/", key, NoId>>

ackUrlFor(key, grantId) == <<"grants/acks/", key, grantId>>

\* the hash of the terms snapshot taken at grant time
TermsHashNow == sha256Hex(<<TERMS_VERSION, TERMS_TEXT>>)

\* ------------------------------------------------------------------------
\* HTTP: a store is a function from the locations that exist to bodies
\* ------------------------------------------------------------------------

\* the ways a request may fail in this behaviour: statuses the server may
\* answer with whatever the store holds, and NetworkError
VARIABLE serverFaults

\* whether the requests of a load sequence that was abandoned are still
\* answered in this behaviour, or stay pending for good
VARIABLE lateAnswers

\* statuses of a request the server refuses or fails
FailStatuses == {403, 500}

\* stands for a fetch that rejects: the request got no answer at all
NetworkError == 0

\* every way a request may fail
AllFaults == FailStatuses \cup {NetworkError}

\* the answers the server can give to a GET of url
GetResponses(store, url) ==
  (IF url \in DOMAIN store
     THEN {[status |-> 200, body |-> store[url]]}
     ELSE {[status |-> 404]})
  \cup {[status |-> s] : s \in serverFaults}

\* the places where a handler that makes several requests may stop: at any
\* of them when requests may fail, at its end only when they may not
Outcomes(all) == IF serverFaults = {} THEN {"returns"} ELSE all

IsOk(status) == status >= 200 /\ status <= 299

\* the store after a PUT of body at url was accepted
Put(store, url, body) ==
  [u \in (DOMAIN store) \cup {url} |-> IF u = url THEN body ELSE store[u]]

\* getJson: absent on 404, an exception on any other non-2xx and when
\* res.json() cannot parse the body, the body else
getJson(resp) ==
  IF resp.status = NetworkError THEN [threw |-> TRUE, value |-> Null]
  ELSE IF resp.status = 404 THEN [threw |-> FALSE, value |-> Null]
  ELSE IF ~IsOk(resp.status) THEN [threw |-> TRUE, value |-> Null]
  ELSE IF resp.body = Malformed THEN [threw |-> TRUE, value |-> Null]
  ELSE [threw |-> FALSE, value |-> resp.body]

\* ------------------------------------------------------------------------
\* State
\* ------------------------------------------------------------------------

VARIABLES
  \* which revision of the application shell runs: "inline" is App.tsx with
  \* the gate, load and revocation effects written in the component, "hooks"
  \* is the shell built from useDoctorGate / usePatientData /
  \* useDoctorRevocationPolling
  app,
  \* which revision of readAccessForFullRecord runs: "acr" reads the
  \* access-control document, "probe" probes full-record.json
  acpImpl,

  \* --- the governance pod ---
  grantStore,      \* grants/state/<key>.json
  ackStore,        \* grants/acks/<key>-<grantId>.json
  auditStore,      \* audit/events/<eventId>.json
  termsStore,      \* notices/terms/v1.txt
  govContainers,   \* the containers that exist on the governance pod
  govAcrStore,     \* the access-control documents of the governance pod
  racers,          \* position of each of two bootstrap calls under way at once
  nextGrantId,     \* the next value uuid() returns for a grant
  nextEventId,     \* the next value uuid() returns for an audit event
  nextFileId,      \* the next value randomUUID() returns for a file entry

  \* --- the patients' pods ---
  podStore,        \* health/full-record.json and health/files.json
  acrStore,        \* health/.acr

  \* --- the patient's browser ---
  toggles,         \* doctorCanReadWrite / emergencyCanRead check boxes

  \* --- the doctor's browser ---
  loggedIn,
  selectedPatient,
  showLegalNotice,
  legalNoticeText,
  pendingGrant,
  noticeAcceptedTick,
  fullRecord,
  fullRecordStatus,
  fullRecordError,
  patientFiles,
  filesLoading,
  filesError,
  pc,              \* position of each asynchronous load sequence
  loadSt,          \* the grant state the sequence's gate call read
  stale,           \* the gateOrThrow call of an abandoned sequence in flight
  pollPc,          \* position of the revocation check in flight
  pollSt,          \* the grant state that check read
  stalePoll,       \* the check of a poller that was torn down

  \* --- calls under way, step by step ---
  editors,         \* two savePatientFile / deletePatientFile calls at once
  fetches,         \* the member reads of a listAuditEvents call

  \* --- a browser of any identity ---
  context,         \* usePatientContext: loggedIn, webId, selectedPatient

  \* --- history, not program state ---
  lastOp,          \* the governance operation that finished last
  lastGate,        \* the gateOrThrow call of this load that finished last
  gatePassed,      \* patients for which a gateOrThrow call returned normally
  ungatedReads,    \* reads of patient data issued with no gate pass before
  lastAccess       \* the readAccessForFullRecord call that finished last

uuidVars == <<nextGrantId, nextEventId, nextFileId>>
govVars == <<grantStore, ackStore, auditStore, termsStore, uuidVars>>
podVars == <<podStore, acrStore>>
gateVars == <<showLegalNotice, legalNoticeText, pendingGrant, noticeAcceptedTick>>
dataVars == <<fullRecord, fullRecordStatus, fullRecordError, patientFiles,
              filesLoading, filesError>>
loadVars == <<pc, loadSt, stale>>
pollVars == <<pollPc, pollSt, stalePoll>>
histVars == <<lastOp, lastGate, gatePassed, ungatedReads, lastAccess>>

envVars == <<serverFaults, lateAnswers, app, acpImpl>>
bootVars == <<govContainers, govAcrStore, racers>>
callVars == <<editors, fetches, context>>

vars == <<envVars, callVars, bootVars, govVars, podVars, toggles, loggedIn, selectedPatient,
          gateVars, dataVars, loadVars, pollVars, histVars>>

\* ------------------------------------------------------------------------
\* Governance store (governanceSolid.ts)
\* ------------------------------------------------------------------------

\* a variant of NewGrantState that records the acknowledgement container
\* instead of the location of this grant's acknowledgement
NewGrantStateNoLocation(patientWebId, doctorWebId, scopeUrl, grantId, updatedAt) ==
  [ key            |-> makeKey(patientWebId, doctorWebId, scopeUrl),
    patientWebId   |-> patientWebId,
    doctorWebId    |-> doctorWebId,
    scopeUrl       |-> scopeUrl,
    status         |-> "active",
    updatedAt      |-> updatedAt,
    termsVersion   |-> TERMS_VERSION,
    termsUrl       |-> termsUrl,
    termsHash      |-> TermsHashNow,
    grantId        |-> grantId,
    activeGrantUrl |-> <<"grants/acks/">> ]

\* the record createGrantAndActivate builds
NewGrantState(patientWebId, doctorWebId, scopeUrl, grantId, updatedAt) ==
  LET key == makeKey(patientWebId, doctorWebId, scopeUrl) IN
  [ key            |-> key,
    patientWebId   |-> patientWebId,
    doctorWebId    |-> doctorWebId,
    scopeUrl       |-> scopeUrl,
    status         |-> "active",
    updatedAt      |-> updatedAt,
    termsVersion   |-> TERMS_VERSION,
    termsUrl       |-> termsUrl,
    termsHash      |-> TermsHashNow,
    grantId        |-> grantId,
    activeGrantUrl |-> ackUrlFor(key, grantId) ]

\* the keys of an audit event, in the order Object.keys(obj).sort() puts them
SortedKeys ==
  << "ackUrl", "actorWebId", "at", "doctorWebId", "eventHash", "eventId",
     "grantId", "patientWebId", "scopeUrl", "termsHash", "termsVersion",
     "type" >>

\* an optional field the caller left out (JSON.stringify writes no such key)
IsUndefined(obj, k) ==
  \/ k = "grantId" /\ obj[k] = NoId
  \/ k = "ackUrl" /\ obj[k] = NoUrl

\* a variant of canonicalJson that leaves the event id and the timestamp out
canonicalJsonOfContent(obj) ==
  LET keys == SelectSeq(SortedKeys,
                LAMBDA k : /\ k \in DOMAIN obj
                           /\ k \notin {"eventId", "at"}
                           /\ ~IsUndefined(obj, k))
  IN [i \in 1..Len(keys) |-> <<keys[i], obj[keys[i]]>>]

\* canonicalJson: the keys of obj sorted, each with its value
canonicalJson(obj) ==
  LET keys == SelectSeq(SortedKeys,
                LAMBDA k : k \in DOMAIN obj /\ ~IsUndefined(obj, k))
  IN [i \in 1..Len(keys) |-> <<keys[i], obj[keys[i]]>>]

\* nowIso: the clock is read as the number of audit events written so far,
\* so that a later event has a later timestamp; the listing of the audit
\* trail is examined with timestamps of any order
nowIso == nextEventId

\* the event writeAudit stores for ev under a fresh event id: base is ev with
\* the id and the timestamp, full is base with its hash
AuditEvent(eventId, at, ev) ==
  LET base == [ eventId      |-> eventId,
                at           |-> at,
                type         |-> ev.type,
                actorWebId   |-> ev.actorWebId,
                patientWebId |-> ev.patientWebId,
                doctorWebId  |-> ev.doctorWebId,
                scopeUrl     |-> ev.scopeUrl,
                grantId      |-> ev.grantId,
                ackUrl       |-> ev.ackUrl,
                termsVersion |-> ev.termsVersion,
                termsHash    |-> ev.termsHash ]
      eventHash == sha256Hex(canonicalJson(base))
  IN [ k \in (DOMAIN base) \cup {"eventHash"} |->
         IF k = "eventHash" THEN eventHash ELSE base[k] ]

auditUrl(eventId) == <<"audit/events/", eventId>>

\* writeAudit: one new resource keyed by the event id
writeAudit(store, eventId, at, ev) ==
  Put(store, auditUrl(eventId), AuditEvent(eventId, at, ev))

\* the event bootstrapGovernanceStore emits
BootstrapEvent ==
  [ type         |-> "GRANT",
    actorWebId   |-> GOVERNANCE_WEBID,
    patientWebId |-> GOVERNANCE_WEBID,
    doctorWebId  |-> DOCTOR_WEBID,
    scopeUrl     |-> "audit/events/",
    grantId      |-> NoId,
    ackUrl       |-> NoUrl,
    termsVersion |-> TERMS_VERSION,
    termsHash    |-> TermsHashNow ]

\* the empty store
Empty == [u \in {} |-> Null]

\* getActiveGrantState: a read of the state resource of the triple
getActiveGrantState(resp) == getJson(resp)

StateUrl(patientWebId, doctorWebId, scopeUrl) ==
  stateUrlForKey(makeKey(patientWebId, doctorWebId, scopeUrl))

\* the triple the shell passes for patient p
TripleUrl(p) == StateUrl(p, DOCTOR_WEBID, HealthContainerUrl(p))

\* the event createGrantAndActivate hands to writeAudit
GrantEvent(state) ==
  [ type         |-> "GRANT",
    actorWebId   |-> state.patientWebId,
    patientWebId |-> state.patientWebId,
    doctorWebId  |-> state.doctorWebId,
    scopeUrl     |-> state.scopeUrl,
    grantId      |-> state.grantId,
    ackUrl       |-> state.activeGrantUrl,
    termsVersion |-> TERMS_VERSION,
    termsHash    |-> TermsHashNow ]

\* createGrantAndActivate.  o is where the call stops: the PUT of the state
\* fails, the PUT of the audit event fails, or the call returns.
createGrantAndActivate(patientWebId, doctorWebId, scopeUrl, o) ==
  LET grantId == nextGrantId
      eventId == nextEventId
      state   == NewGrantState(patientWebId, doctorWebId, scopeUrl, grantId,
                               nowIso)
      ev      == GrantEvent(state)
  IN
  /\ o \in {"statePutFails", "auditPutFails", "returns"}
  /\ nextGrantId <= MaxGrants
  /\ nextEventId <= MaxEvents
  /\ grantStore' = IF o = "statePutFails" THEN grantStore
                   ELSE Put(grantStore, stateUrlForKey(state.key), state)
  /\ auditStore' = IF o = "returns" THEN writeAudit(auditStore, eventId, nowIso, ev)
                   ELSE auditStore
  /\ nextGrantId' = IF o = "statePutFails" THEN nextGrantId ELSE nextGrantId + 1
  /\ nextEventId' = IF o = "returns" THEN nextEventId + 1 ELSE nextEventId
  /\ UNCHANGED nextFileId
  /\ lastOp' = [ op |-> "createGrantAndActivate", patient |-> patientWebId,
                 result |-> IF o = "returns" THEN "returned" ELSE "threw",
                 grantId |-> grantId, grantUrl |-> state.activeGrantUrl ]
  /\ UNCHANGED <<ackStore, termsStore>>

\* a variant of RevokedState that leaves the status as it is
RevokedStateSameStatus(state, updatedAt) == [state EXCEPT !.updatedAt = updatedAt]

\* a variant of RevokedState that forgets where the acknowledgement is
RevokedStateNoLocation(state, updatedAt) ==
  [state EXCEPT !.status = "revoked", !.updatedAt = updatedAt,
                !.activeGrantUrl = NoUrl]

\* the record revokeActiveGrant writes over state
RevokedState(state, updatedAt) ==
  [state EXCEPT !.status = "revoked", !.updatedAt = updatedAt]

\* the event revokeActiveGrant hands to writeAudit
RevokeEvent(state, patientWebId, doctorWebId, scopeUrl) ==
  [ type         |-> "REVOKE",
    actorWebId   |-> patientWebId,
    patientWebId |-> patientWebId,
    doctorWebId  |-> doctorWebId,
    scopeUrl     |-> scopeUrl,
    grantId      |-> state.grantId,
    ackUrl       |-> state.activeGrantUrl,
    termsVersion |-> state.termsVersion,
    termsHash    |-> state.termsHash ]

\* revokeActiveGrant.  o is where the call stops: the GET of the state fails,
\* the state is absent, the PUT of the state fails, the PUT of the audit
\* event fails, or the call returns after both writes.
revokeActiveGrant(patientWebId, doctorWebId, scopeUrl, o) ==
  LET url == StateUrl(patientWebId, doctorWebId, scopeUrl)
      eventId == nextEventId
  IN
  /\ o \in {"stateGetFails", "statePutFails", "auditPutFails", "returns"}
  /\ IF o = "stateGetFails" \/ url \notin DOMAIN grantStore
       THEN /\ UNCHANGED <<grantStore, auditStore, uuidVars>>
            /\ lastOp' = [ op |-> "revokeActiveGrant", patient |-> patientWebId,
                           result |-> IF o = "stateGetFails" THEN "threw"
                                      ELSE "returned",
                           grantId |-> NoId, grantUrl |-> NoUrl ]
       ELSE LET state == grantStore[url]
                next  == RevokedState(state, nowIso)
                ev    == RevokeEvent(state, patientWebId, doctorWebId, scopeUrl)
            IN
            /\ nextEventId <= MaxEvents
            /\ grantStore' = IF o = "statePutFails" THEN grantStore
                             ELSE Put(grantStore, url, next)
            /\ auditStore' = IF o = "returns"
                               THEN writeAudit(auditStore, eventId, nowIso, ev)
                               ELSE auditStore
            /\ nextEventId' = IF o = "returns" THEN nextEventId + 1
                              ELSE nextEventId
            /\ UNCHANGED <<nextGrantId, nextFileId>>
            /\ lastOp' = [ op |-> "revokeActiveGrant",
                           patient |-> patientWebId,
                           result |-> IF o = "returns" THEN "returned"
                                      ELSE "threw",
                           grantId |-> state.grantId,
                           grantUrl |-> state.activeGrantUrl ]
  /\ UNCHANGED <<ackStore, termsStore>>

\* a variant of hasDoctorAcknowledged that takes any acknowledgement that
\* parses, whoever it names
hasAnyAcknowledged(resp, doctorWebId) ==
  IF resp.status = NetworkError THEN [threw |-> TRUE, value |-> FALSE]
  ELSE IF ~IsOk(resp.status) THEN [threw |-> FALSE, value |-> FALSE]
  ELSE [threw |-> FALSE, value |-> TRUE]

\* a variant of hasDoctorAcknowledged that takes a body that does not parse
\* as no acknowledgement
hasDoctorAcknowledgedStrict(resp, doctorWebId) ==
  IF resp.status = NetworkError THEN [threw |-> TRUE, value |-> FALSE]
  ELSE IF ~IsOk(resp.status) THEN [threw |-> FALSE, value |-> FALSE]
  ELSE IF resp.body = Malformed THEN [threw |-> FALSE, value |-> FALSE]
  ELSE [threw |-> FALSE, value |-> resp.body.acknowledgedBy = doctorWebId]

\* hasDoctorAcknowledged on the answer to the GET of the acknowledgement
hasDoctorAcknowledged(resp, doctorWebId) ==
  IF resp.status = NetworkError THEN [threw |-> TRUE, value |-> FALSE]
  ELSE IF resp.status = 404 THEN [threw |-> FALSE, value |-> FALSE]
  ELSE IF ~IsOk(resp.status) THEN [threw |-> FALSE, value |-> FALSE]
  ELSE IF resp.body = Malformed THEN [threw |-> FALSE, value |-> TRUE]
  ELSE [threw |-> FALSE, value |-> resp.body.acknowledgedBy = doctorWebId]

\* a variant of NewAck that leaves out who acknowledged
NewAckUnsigned(doctorWebId, termsVersion, termsHash) ==
  [ acknowledgedBy |-> NoText,
    termsVersion   |-> termsVersion,
    termsHash      |-> termsHash ]

\* a variant of NewAck that records the terms of the running build
NewAckLiveTerms(doctorWebId, termsVersion, termsHash) ==
  [ acknowledgedBy |-> doctorWebId,
    termsVersion   |-> TERMS_VERSION,
    termsHash      |-> TermsHashNow ]

\* the record acknowledgeGrant writes
NewAck(doctorWebId, termsVersion, termsHash) ==
  [ acknowledgedBy |-> doctorWebId,
    termsVersion   |-> termsVersion,
    termsHash      |-> termsHash ]

\* a variant of AckEvent that names the acknowledgement location of the
\* grant state stored now for the triple of grant
AckEventOfStored(grant, doctorWebId) ==
  LET url == StateUrl(grant.patientWebId, doctorWebId, grant.scopeUrl)
      now == IF url \in DOMAIN grantStore THEN grantStore[url] ELSE grant
  IN
  [ type         |-> "NOTICE_ACK",
    actorWebId   |-> doctorWebId,
    patientWebId |-> now.patientWebId,
    doctorWebId  |-> doctorWebId,
    scopeUrl     |-> now.scopeUrl,
    grantId      |-> NoId,
    ackUrl       |-> now.activeGrantUrl,
    termsVersion |-> now.termsVersion,
    termsHash    |-> now.termsHash ]

\* the event acknowledgeGrant hands to writeAudit: it carries no grant id
AckEvent(grant, doctorWebId) ==
  [ type         |-> "NOTICE_ACK",
    actorWebId   |-> doctorWebId,
    patientWebId |-> grant.patientWebId,
    doctorWebId  |-> doctorWebId,
    scopeUrl     |-> grant.scopeUrl,
    grantId      |-> NoId,
    ackUrl       |-> grant.activeGrantUrl,
    termsVersion |-> grant.termsVersion,
    termsHash    |-> grant.termsHash ]

\* ------------------------------------------------------------------------
\* Governance log listing (governanceSolid.ts)
\* ------------------------------------------------------------------------

\* the orders in which the members S can be written
Orders(S) ==
  {f \in [1..Cardinality(S) -> S] :
     \A i \in 1..Cardinality(S), j \in 1..Cardinality(S) : f[i] = f[j] => i = j}

\* the answers of a server to the GET of a container with the members S: the
\* representation is JSON-LD or Turtle, and it states ldp:contains in one or
\* more statements, each with the list of its objects; a server writes all
\* members as the objects of one statement or one statement for each member
ContainerResponses(S) ==
  (IF S = {} THEN {[status |-> 404]} ELSE {})
  \cup { [status |-> 200, contentType |-> ct, contains |-> <<order>>] :
           ct \in {"application/ld+json", "text/turtle"}, order \in Orders(S) }
  \cup { [status |-> 200, contentType |-> "text/turtle",
          contains |-> [i \in 1..Len(order) |-> <<order[i]>>]] :
           order \in Orders(S) }
  \cup {[status |-> st] : st \in serverFaults}

\* the location is written with a dot, as every <id>.json is
HasDot(iri) == iri[1] = "audit/events/"

\* the objects stmtRe captures from one statement: its text is matched up to
\* the first dot, so the locations that are complete before that dot
BeforeDot(objects) ==
  LET dotted == {i \in 1..Len(objects) : HasDot(objects[i])}
      stop   == IF dotted = {} THEN Len(objects) + 1
                ELSE CHOOSE i \in dotted : \A j \in dotted : i <= j
  IN SubSeq(objects, 1, stop - 1)

RECURSIVE Concat(_)
\* the concatenation of a sequence of sequences
Concat(seqs) == IF seqs = << >> THEN << >> ELSE Head(seqs) \o Concat(Tail(seqs))

RECURSIVE Distinct(_)
\* Array.from(new Set(out)): each value once, at the place of its first entry
Distinct(seq) ==
  IF seq = << >> THEN << >>
  ELSE LET front == Distinct(SubSeq(seq, 1, Len(seq) - 1))
           last  == seq[Len(seq)]
       IN IF \E i \in 1..Len(front) : front[i] = last THEN front
          ELSE Append(front, last)

\* listContainerMembers: nothing on 404, an exception on any other non-2xx;
\* from JSON-LD every @id of every ldp:contains, from Turtle what stmtRe
\* finds in each statement and then what singleRe finds, the first object
\* after each ldp:contains
listContainerMembers(resp) ==
  IF resp.status = NetworkError THEN [threw |-> TRUE, value |-> << >>]
  ELSE IF resp.status = 404 THEN [threw |-> FALSE, value |-> << >>]
  ELSE IF ~IsOk(resp.status) THEN [threw |-> TRUE, value |-> << >>]
  ELSE IF resp.contentType = "application/ld+json"
    THEN [threw |-> FALSE, value |-> Distinct(Concat(resp.contains))]
  ELSE
    LET n      == Len(resp.contains)
        stmts  == Concat([i \in 1..n |-> BeforeDot(resp.contains[i])])
        single == Concat([i \in 1..n |->
                    IF resp.contains[i] = << >> THEN << >>
                    ELSE <<Head(resp.contains[i])>>])
    IN [threw |-> FALSE, value |-> Distinct(stmts \o single)]

RECURSIVE SortByAtDescending(_)
\* events.sort((a, b) => (a.at < b.at ? 1 : a.at > b.at ? -1 : 0)): later
\* first, events of one timestamp in the order they had
SortByAtDescending(events) ==
  IF events = << >> THEN << >>
  ELSE LET front  == SortByAtDescending(SubSeq(events, 1, Len(events) - 1))
           last   == events[Len(events)]
           before == SelectSeq(front, LAMBDA e : e.at >= last.at)
           after  == SelectSeq(front, LAMBDA e : e.at < last.at)
       IN before \o <<last>> \o after

\* the limit of a call that names none
DefaultLimit == 300

\* events.slice(0, limit)
Slice(events, limit) ==
  SubSeq(events, 1, IF limit < Len(events) THEN limit ELSE Len(events))

\* listAuditEvents: the members are listed, each is read by getJson (a member
\* whose read fails or finds nothing is skipped; readable are the members
\* whose read is answered with the event), the events are sorted and cut
listAuditEvents(resp, readable, limit) ==
  LET members == listContainerMembers(resp) IN
  IF members.threw THEN [threw |-> TRUE, value |-> << >>]
  ELSE
    LET eventUrls == SelectSeq(members.value, LAMBDA u : u \in readable)
        events    == [i \in 1..Len(eventUrls) |-> auditStore[eventUrls[i]]]
    IN [threw |-> FALSE, value |-> Slice(SortByAtDescending(events), limit)]

\* writeAudit called at any reading of the clock; ok says whether its PUT
\* succeeds
AppendEvent(at, ev, ok) ==
  /\ nextEventId <= MaxAppended
  /\ auditStore' = IF ok THEN writeAudit(auditStore, nextEventId, at, ev)
                   ELSE auditStore
  /\ nextEventId' = IF ok THEN nextEventId + 1 ELSE nextEventId
  /\ lastOp' = [ op |-> "writeAudit", patient |-> ev.patientWebId,
                 result |-> IF ok THEN "returned" ELSE "threw",
                 grantId |-> NoId, grantUrl |-> NoUrl ]
  /\ UNCHANGED <<envVars, callVars, bootVars, grantStore, ackStore, termsStore, nextGrantId,
                 nextFileId, podVars, toggles, loggedIn, selectedPatient,
                 gateVars, dataVars, loadVars, pollVars, lastGate, gatePassed,
                 ungatedReads, lastAccess>>

\* refreshAudit: listAuditEvents with a limit, on any answer to the listing
\* of the container and with any of the members readable
ListEvents(limit) ==
  /\ \E resp \in ContainerResponses(DOMAIN auditStore),
        readable \in SUBSET (DOMAIN auditStore) :
       /\ serverFaults = {} => readable = DOMAIN auditStore
       /\ LET r == listAuditEvents(resp, readable, limit) IN
          lastOp' = [ op |-> "listAuditEvents", patient |-> NoText,
                      result |-> IF r.threw THEN "threw" ELSE "returned",
                      grantId |-> NoId, grantUrl |-> NoUrl,
                      limit |-> limit, listing |-> resp,
                      readable |-> readable, events |-> r.value ]
  /\ UNCHANGED <<envVars, callVars, bootVars, govVars, podVars, toggles, loggedIn,
                 selectedPatient, gateVars, dataVars, loadVars, pollVars,
                 lastGate, gatePassed, ungatedReads, lastAccess>>

\* the answers a server can give to the GET of a stored event: the event, a
\* body that is no JSON, 404 when the event was removed after the container
\* was listed, a failure
MemberAnswers(store, url) ==
  GetResponses(store, url) \cup {[status |-> 200, body |-> Malformed], [status |-> 404]}

\* a variant of readMember with no catch
readMemberNoCatch(resp) == getJson(resp)

\* try { return await getJson(fetchFn, url) } catch { return null }
readMember(resp) ==
  LET r == getJson(resp) IN
  [threw |-> FALSE, value |-> IF r.threw THEN Null ELSE r.value]

\* listAuditEvents with a limit, on any answer to the listing of the
\* container and any answer to the read of each member.  The call changes
\* no store: it is followed once after each change of the trail
ListAnswered(limit) ==
  /\ lastOp.op # "listAuditEvents"
  /\ \E resp \in ContainerResponses(DOMAIN auditStore) :
     \E answers \in [DOMAIN auditStore ->
                        UNION {MemberAnswers(auditStore, u) : u \in DOMAIN auditStore}] :
       /\ \A u \in DOMAIN auditStore : answers[u] \in MemberAnswers(auditStore, u)
       /\ LET answer(u) == answers[u]
              listed   == listContainerMembers(resp)
              members  == {listed.value[i] : i \in 1..Len(listed.value)}
              reads    == [u \in members |-> readMember(answer(u))]
              readable == {u \in members : reads[u].value # Null}
              r        == listAuditEvents(resp, readable, limit)
              threw    == r.threw \/ \E u \in members : reads[u].threw
          IN
          lastOp' = [ op |-> "listAuditEvents", patient |-> NoText,
                      result |-> IF threw THEN "threw" ELSE "returned",
                      grantId |-> NoId, grantUrl |-> NoUrl,
                      limit |-> limit, listing |-> resp,
                      readable |-> readable,
                      events |-> IF threw THEN << >> ELSE r.value,
                      members |-> members, answers |-> answers ]
  /\ UNCHANGED <<envVars, callVars, bootVars, govVars, podVars, toggles, loggedIn,
                 selectedPatient, gateVars, dataVars, loadVars, pollVars,
                 lastGate, gatePassed, ungatedReads, lastAccess>>

\* ------------------------------------------------------------------------
\* listAuditEvents request by request: the member reads of one call
\* ------------------------------------------------------------------------

chunkSize == 15

\* no call is under way.  members: eventUrls.length; i: the loop variable;
\* inFlight: the places in eventUrls of the getJson calls not yet settled
NoFetches == [pc |-> "idle", members |-> 0, i |-> 0, inFlight |-> {}]

\* a variant of chunk that takes every member from i on
chunkToEnd(members, i) == (i + 1)..members

\* eventUrls.slice(i, i + chunkSize), as the places it takes (counted from 1)
chunk(members, i) ==
  (i + 1)..(IF i + chunkSize < members THEN i + chunkSize ELSE members)

\* the call lists the container and finds n members ending in .json
FetchList(n) ==
  /\ fetches.pc = "idle"
  /\ fetches' = [pc |-> "loop", members |-> n, i |-> 0, inFlight |-> {}]
  /\ UNCHANGED <<envVars, editors, context, bootVars, govVars, podVars, toggles, loggedIn,
                 selectedPatient, gateVars, dataVars, loadVars, pollVars,
                 histVars>>

\* the loop test holds: chunk.map starts the getJson call of every member
\* of the chunk, Promise.all waits for them
ChunkStart ==
  /\ fetches.pc = "loop"
  /\ fetches.i < fetches.members
  /\ fetches' = [fetches EXCEPT
       !.pc = "await",
       !.inFlight = fetches.inFlight \cup chunk(fetches.members, fetches.i)]
  /\ UNCHANGED <<envVars, editors, context, bootVars, govVars, podVars, toggles, loggedIn,
                 selectedPatient, gateVars, dataVars, loadVars, pollVars,
                 histVars>>

\* the getJson call of one member settles, with the event or caught
FetchSettles(u) ==
  /\ u \in fetches.inFlight
  /\ fetches' = [fetches EXCEPT !.inFlight = fetches.inFlight \ {u}]
  /\ UNCHANGED <<envVars, editors, context, bootVars, govVars, podVars, toggles, loggedIn,
                 selectedPatient, gateVars, dataVars, loadVars, pollVars,
                 histVars>>

\* Promise.all settles when every call of the chunk has: the events are
\* pushed and i += chunkSize
ChunkDone ==
  /\ fetches.pc = "await"
  /\ fetches.inFlight \cap chunk(fetches.members, fetches.i) = {}
  /\ fetches' = [fetches EXCEPT !.pc = "loop", !.i = fetches.i + chunkSize]
  /\ UNCHANGED <<envVars, editors, context, bootVars, govVars, podVars, toggles, loggedIn,
                 selectedPatient, gateVars, dataVars, loadVars, pollVars,
                 histVars>>

\* the loop test fails: sort, slice, return
FetchReturn ==
  /\ fetches.pc = "loop"
  /\ fetches.i >= fetches.members
  /\ fetches' = [fetches EXCEPT !.pc = "idle"]
  /\ UNCHANGED <<envVars, editors, context, bootVars, govVars, podVars, toggles, loggedIn,
                 selectedPatient, gateVars, dataVars, loadVars, pollVars,
                 histVars>>

\* ------------------------------------------------------------------------
\* The doctor's browser: gate, load sequence, notice
\* ------------------------------------------------------------------------

\* the asynchronous sequences of one run of the load effect: the hook runs
\* one ("rec": gate, full record, files), App.tsx runs two side by side
\* ("rec": gate, full record; "files": gate, files)
Threads == {"rec", "files"}

RecordUrl(p) == <<p, "health/full-record.json">>
FilesUrl(p) == <<p, "health/files.json">>

TermsFallback == "Terms could not be loaded."
MsgNoticeRequired == "Legal notice must be accepted before access is allowed."
MsgNoGrant == "Access is not currently granted or has been revoked."
MsgNotLoaded == "Record not loaded!"
MsgFilesNotLoaded == "Patient files not loaded!"
MsgNoAccess == "You do not have access to this patient's full record."
MsgNoRecord == "No full record exists yet for this patient."
MsgRevoked == "Access revoked. Data cleared."

\* the record of a finished gateOrThrow call: the patient it was made for,
\* the answers to its reads of the grant state, of the acknowledgement and
\* of the terms, and how it ended
GateRecord(p, st, ack, terms, outcome) ==
  [ patient |-> p, st |-> st, ack |-> ack, terms |-> terms,
    outcome |-> outcome ]

\* a read that was not made
NotRead == [status |-> NoStatus]

\* the answer that carried body
Answer(body) == [status |-> 200, body |-> body]

NoGate == GateRecord(NoText, NotRead, NotRead, NotRead, "none")

\* resetPatientUi
resetPatientUi ==
  /\ fullRecord' = Null
  /\ fullRecordStatus' = NoStatus
  /\ fullRecordError' = NoText
  /\ patientFiles' = << >>
  /\ filesLoading' = FALSE
  /\ filesError' = NoText

\* the gateOrThrow calls of the running sequences that have not returned:
\* the cleanup of the effect sets cancelled, which the setters of the load
\* sequence test and gateOrThrow does not, so such a call goes on.  Each is
\* held with the patient it was made for; one abandoned call is followed,
\* in the behaviours where its requests are answered.
Abandoned ==
  { [patient |-> selectedPatient, pc |-> pc[t], st |-> loadSt[t]] :
      t \in {u \in Threads : pc[u] \in {"gateState", "gateAck", "gateTerms"}} }

\* one run of the load effect for a logged-in doctor: the UI is reset and
\* the sequences start at the gate; a sequence of the previous run is
\* abandoned
StartLoad ==
  /\ fullRecord' = Null
  /\ fullRecordStatus' = NoStatus
  /\ fullRecordError' = NoText
  /\ patientFiles' = << >>
  /\ filesLoading' = (app = "inline")
  /\ filesError' = NoText
  /\ pc' = [t \in Threads |->
              IF t = "rec" \/ app = "inline" THEN "gateState" ELSE "idle"]
  /\ loadSt' = [t \in Threads |-> Null]
  /\ stale' \in IF ~lateAnswers \/ Abandoned = {} THEN {stale} ELSE Abandoned
  /\ lastGate' = NoGate

\* what the catch block of sequence t leaves in the UI for error kind
CatchLoad(t, kind) ==
  IF app = "hooks" THEN
    /\ fullRecord' = Null
    /\ fullRecordStatus' = IF kind = "other" THEN NoStatus ELSE 403
    /\ fullRecordError' = CASE kind = "LegalNoticeRequired" -> MsgNoticeRequired
                            [] kind = "NoActiveGrant" -> MsgNoGrant
                            [] OTHER -> MsgNotLoaded
    /\ patientFiles' = << >>
    /\ filesLoading' = FALSE
    /\ filesError' = IF kind = "other" THEN MsgFilesNotLoaded ELSE NoText
  ELSE IF t = "rec" THEN
    /\ fullRecord' = Null
    /\ fullRecordStatus' = IF kind = "other" THEN NoStatus ELSE 403
    /\ fullRecordError' = CASE kind = "LegalNoticeRequired" -> MsgNoticeRequired
                            [] kind = "NoActiveGrant" -> MsgNoGrant
                            [] OTHER -> MsgNotLoaded
    /\ UNCHANGED <<patientFiles, filesLoading, filesError>>
  ELSE
    /\ filesError' = MsgFilesNotLoaded
    /\ filesLoading' = FALSE
    /\ UNCHANGED <<fullRecord, fullRecordStatus, fullRecordError, patientFiles>>

\* a variant of NoActiveGrant that only looks whether there is a record
NoActiveGrantWhenAbsent(st) == st = Null

\* the test gateOrThrow makes on the state it read
NoActiveGrant(st) ==
  st = Null \/ st.status # "active" \/ st.activeGrantUrl = NoUrl

\* gateOrThrow, first await: the grant state is read and tested
GateState(t) ==
  /\ loggedIn
  /\ pc[t] = "gateState"
  /\ \E resp \in GetResponses(grantStore, TripleUrl(selectedPatient)) :
       LET r == getActiveGrantState(resp) IN
       IF r.threw THEN
         /\ CatchLoad(t, "other")
         /\ pc' = [pc EXCEPT ![t] = "done"]
         /\ lastGate' = GateRecord(selectedPatient, resp, NotRead, NotRead, "threw")
         /\ UNCHANGED loadSt
       ELSE IF NoActiveGrant(r.value) THEN
         /\ CatchLoad(t, "NoActiveGrant")
         /\ pc' = [pc EXCEPT ![t] = "done"]
         /\ lastGate' = GateRecord(selectedPatient, resp, NotRead, NotRead,
                                   "NoActiveGrant")
         /\ UNCHANGED loadSt
       ELSE
         /\ pc' = [pc EXCEPT ![t] = "gateAck"]
         /\ loadSt' = [loadSt EXCEPT ![t] = r.value]
         /\ UNCHANGED <<dataVars, lastGate>>
  /\ UNCHANGED <<envVars, callVars, bootVars, govVars, podVars, toggles, loggedIn,
                 selectedPatient, gateVars, pollVars, lastOp, gatePassed,
                 ungatedReads, lastAccess>>
  /\ UNCHANGED stale

\* gateOrThrow, second await: the acknowledgement is read; the call returns
\* when hasDoctorAcknowledged says so
GateAck(t) ==
  /\ loggedIn
  /\ pc[t] = "gateAck"
  /\ \E resp \in GetResponses(ackStore, loadSt[t].activeGrantUrl) :
       LET ok == hasDoctorAcknowledged(resp, DOCTOR_WEBID) IN
       IF ok.threw THEN
         /\ CatchLoad(t, "other")
         /\ pc' = [pc EXCEPT ![t] = "done"]
         /\ lastGate' = GateRecord(selectedPatient, Answer(loadSt[t]), resp,
                                   NotRead, "threw")
         /\ UNCHANGED <<loadSt, gatePassed>>
       ELSE IF ok.value THEN
         /\ pc' = [pc EXCEPT ![t] = IF t = "rec" THEN "record" ELSE "files"]
         /\ lastGate' = GateRecord(selectedPatient, Answer(loadSt[t]), resp,
                                   NotRead, "passed")
         /\ gatePassed' = gatePassed \cup {selectedPatient}
         /\ UNCHANGED <<dataVars, loadSt>>
       ELSE
         /\ pc' = [pc EXCEPT ![t] = "gateTerms"]
         /\ loadSt' = [loadSt EXCEPT ![t] = [st |-> loadSt[t], ack |-> resp]]
         /\ UNCHANGED <<dataVars, lastGate, gatePassed>>
  /\ UNCHANGED <<envVars, callVars, bootVars, govVars, podVars, toggles, loggedIn,
                 selectedPatient, gateVars, pollVars, lastOp, ungatedReads,
                 lastAccess>>
  /\ UNCHANGED stale

\* the notice text gateOrThrow takes from the answer to the terms request
NoticeText(resp) == IF IsOk(resp.status) THEN resp.body ELSE TermsFallback

\* gateOrThrow, third await: the terms are read, the notice is put up and
\* LegalNoticeRequired is thrown
GateTerms(t) ==
  /\ loggedIn
  /\ pc[t] = "gateTerms"
  /\ LET st == loadSt[t].st IN
     \E resp \in GetResponses(termsStore, st.termsUrl) :
       IF resp.status = NetworkError THEN
         /\ CatchLoad(t, "other")
         /\ lastGate' = GateRecord(selectedPatient, Answer(st), loadSt[t].ack,
                                   resp, "threw")
         /\ UNCHANGED gateVars
       ELSE
         /\ pendingGrant' = st
         /\ legalNoticeText' = NoticeText(resp)
         /\ showLegalNotice' = TRUE
         /\ UNCHANGED noticeAcceptedTick
         /\ CatchLoad(t, "LegalNoticeRequired")
         /\ lastGate' = GateRecord(selectedPatient, Answer(st), loadSt[t].ack,
                                   resp, "LegalNoticeRequired")
  /\ pc' = [pc EXCEPT ![t] = "done"]
  /\ UNCHANGED <<envVars, callVars, bootVars, govVars, podVars, toggles, loggedIn,
                 selectedPatient, loadSt, pollVars, lastOp, gatePassed,
                 ungatedReads, lastAccess>>
  /\ UNCHANGED stale

\* a step of the abandoned gateOrThrow call: it reads what the running call
\* would read, for the patient it was made for, and at its end puts the
\* notice up all the same; what it throws is dropped by the catch block,
\* which returns when cancelled is set, as do the setters of the reads that
\* follow a call that returns
StaleGate ==
  /\ loggedIn
  /\ stale # Null
  /\ \/ /\ stale.pc = "gateState"
        /\ \E resp \in GetResponses(grantStore, TripleUrl(stale.patient)) :
             LET r == getActiveGrantState(resp) IN
             stale' = IF r.threw \/ NoActiveGrant(r.value) THEN Null
                      ELSE [stale EXCEPT !.pc = "gateAck", !.st = r.value]
        /\ UNCHANGED gateVars
     \/ /\ stale.pc = "gateAck"
        /\ \E resp \in GetResponses(ackStore, stale.st.activeGrantUrl) :
             LET ok == hasDoctorAcknowledged(resp, DOCTOR_WEBID) IN
             stale' = IF ok.threw \/ ok.value THEN Null
                      ELSE [stale EXCEPT !.pc = "gateTerms",
                                         !.st = [st |-> stale.st, ack |-> resp]]
        /\ UNCHANGED gateVars
     \/ /\ stale.pc = "gateTerms"
        /\ stale' = Null
        /\ \E resp \in GetResponses(termsStore, stale.st.st.termsUrl) :
             IF resp.status = NetworkError THEN UNCHANGED gateVars
             ELSE /\ pendingGrant' = stale.st.st
                  /\ legalNoticeText' = NoticeText(resp)
                  /\ showLegalNotice' = TRUE
                  /\ UNCHANGED noticeAcceptedTick
  /\ UNCHANGED <<envVars, callVars, bootVars, govVars, podVars, toggles, loggedIn,
                 selectedPatient, dataVars, pc, loadSt, pollVars, histVars>>

\* a read of patient data by the doctor's browser, entered in the history
NoteRead(p, resource) ==
  ungatedReads' = IF p \in gatePassed THEN ungatedReads
                  ELSE ungatedReads \cup {<<p, resource>>}

\* safeLoadFullRecord for the doctor (allowCreateIfMissing = false) and the
\* state the load sequence sets from it
LoadRecord(t) ==
  /\ loggedIn
  /\ pc[t] = "record"
  /\ NoteRead(selectedPatient, "full-record.json")
  /\ \E resp \in GetResponses(podStore, RecordUrl(selectedPatient)) :
       IF resp.status \in {403, 404} THEN
         /\ fullRecord' = Null
         /\ fullRecordStatus' = resp.status
         /\ fullRecordError' = IF resp.status = 403 THEN MsgNoAccess
                               ELSE MsgNoRecord
         /\ filesLoading' = IF app = "hooks" THEN TRUE ELSE filesLoading
         /\ UNCHANGED <<patientFiles, filesError>>
         /\ pc' = [pc EXCEPT ![t] = IF app = "hooks" THEN "files" ELSE "done"]
       ELSE IF ~IsOk(resp.status) THEN
         /\ CatchLoad(t, "other")
         /\ pc' = [pc EXCEPT ![t] = "done"]
       ELSE
         /\ fullRecord' = resp.body
         /\ fullRecordStatus' = resp.status
         /\ fullRecordError' = IF app = "hooks" THEN NoText ELSE fullRecordError
         /\ filesLoading' = IF app = "hooks" THEN TRUE ELSE filesLoading
         /\ UNCHANGED <<patientFiles, filesError>>
         /\ pc' = [pc EXCEPT ![t] = IF app = "hooks" THEN "files" ELSE "done"]
  /\ UNCHANGED <<envVars, callVars, bootVars, govVars, podVars, toggles, loggedIn,
                 selectedPatient, gateVars, loadSt, pollVars, lastOp, lastGate,
                 gatePassed, lastAccess>>
  /\ UNCHANGED stale

\* loadPatientFiles: the empty list on 404, an exception on any other
\* non-2xx, the stored list else
loadPatientFiles(resp) ==
  IF resp.status = NetworkError THEN [threw |-> TRUE, value |-> << >>]
  ELSE IF resp.status = 404 THEN [threw |-> FALSE, value |-> << >>]
  ELSE IF ~IsOk(resp.status) THEN [threw |-> TRUE, value |-> << >>]
  ELSE [threw |-> FALSE, value |-> resp.body]

\* the files step of the load sequence
LoadFiles(t) ==
  /\ loggedIn
  /\ pc[t] = "files"
  /\ NoteRead(selectedPatient, "files.json")
  /\ \E resp \in GetResponses(podStore, FilesUrl(selectedPatient)) :
       LET r == loadPatientFiles(resp) IN
       IF r.threw THEN CatchLoad(t, "other")
       ELSE /\ patientFiles' = r.value
            /\ filesLoading' = FALSE
            /\ filesError' = IF app = "hooks" THEN NoText ELSE filesError
            /\ UNCHANGED <<fullRecord, fullRecordStatus, fullRecordError>>
  /\ pc' = [pc EXCEPT ![t] = "done"]
  /\ UNCHANGED <<envVars, callVars, bootVars, govVars, podVars, toggles, loggedIn,
                 selectedPatient, gateVars, loadSt, pollVars, lastOp, lastGate,
                 gatePassed, lastAccess>>
  /\ UNCHANGED stale

\* acceptNotice / handleAcceptLegalNotice: acknowledgeGrant for the pending
\* grant, then the notice is closed and the tick re-runs the load effect.
\* o is where acknowledgeGrant stops.
AcceptNotice(o) ==
  /\ loggedIn
  /\ showLegalNotice
  /\ o \in {"ackPutFails", "auditPutFails", "returns"}
  /\ IF pendingGrant = Null \/ pendingGrant.activeGrantUrl = NoUrl
       THEN UNCHANGED <<govVars, gateVars, dataVars, loadVars, lastOp, lastGate>>
       ELSE
         LET ack == NewAck(DOCTOR_WEBID, pendingGrant.termsVersion,
                           pendingGrant.termsHash)
             ev  == AckEvent(pendingGrant, DOCTOR_WEBID)
         IN
         /\ nextEventId <= MaxEvents
         /\ ackStore' = IF o = "ackPutFails" THEN ackStore
                        ELSE Put(ackStore, pendingGrant.activeGrantUrl, ack)
         /\ auditStore' = IF o = "returns"
                            THEN writeAudit(auditStore, nextEventId, nowIso, ev)
                            ELSE auditStore
         /\ nextEventId' = IF o = "returns" THEN nextEventId + 1
                           ELSE nextEventId
         /\ UNCHANGED <<grantStore, termsStore, nextGrantId, nextFileId>>
         /\ lastOp' = [ op |-> "acknowledgeGrant",
                        patient |-> pendingGrant.patientWebId,
                        result |-> IF o = "returns" THEN "returned" ELSE "threw",
                        grantId |-> pendingGrant.grantId,
                        grantUrl |-> pendingGrant.activeGrantUrl,
                        ackWritten |-> o # "ackPutFails",
                        existed |-> pendingGrant.activeGrantUrl
                                      \in DOMAIN ackStore ]
         /\ IF o = "returns"
              THEN /\ showLegalNotice' = FALSE
                   /\ pendingGrant' = Null
                   /\ noticeAcceptedTick' = noticeAcceptedTick + 1
                   /\ UNCHANGED legalNoticeText
                   /\ StartLoad
              ELSE UNCHANGED <<gateVars, dataVars, loadVars, lastGate>>
  /\ UNCHANGED <<envVars, callVars, bootVars, podVars, toggles, loggedIn, selectedPatient,
                 pollVars, gatePassed, ungatedReads, lastAccess>>

\* cancelNotice
CancelNotice ==
  /\ loggedIn
  /\ showLegalNotice
  /\ showLegalNotice' = FALSE
  /\ pendingGrant' = Null
  /\ UNCHANGED <<envVars, callVars, bootVars, govVars, podVars, toggles, loggedIn,
                 selectedPatient, legalNoticeText, noticeAcceptedTick,
                 dataVars, loadVars, pollVars, histVars>>

\* the doctor logs in: the effects run for the selected patient
Login ==
  /\ ~loggedIn
  /\ loggedIn' = TRUE
  /\ StartLoad
  /\ UNCHANGED <<envVars, callVars, bootVars, govVars, podVars, toggles, selectedPatient,
                 gateVars, pollVars, lastOp, gatePassed, ungatedReads,
                 lastAccess>>

\* the hasActiveData argument of useDoctorRevocationPolling: the shell that
\* calls the hook passes none, so the hook sees undefined
hasActiveData == FALSE

\* the guard of the revocation effect (role doctor, a patient resolved); the
\* hook also wants hasActiveData, the effect in App.tsx does not
PollerRuns ==
  /\ loggedIn
  /\ app = "hooks" => hasActiveData

\* the checks a poller may have in flight when its effect is cleaned up: the
\* one whose answer has arrived, else none or one whose request is out
InFlight ==
  IF pollPc = "read"
    THEN {[patient |-> selectedPatient, pc |-> "read", st |-> pollSt]}
    ELSE {Null, [patient |-> selectedPatient, pc |-> "request", st |-> Null]}

\* a variant of revoked that does not look at the stopped flag
revokedIgnoringStopped(st, stopped) == st = Null \/ st.status # "active"

\* (!st || st.status !== "active") && !stopped
revoked(st, stopped) == (st = Null \/ st.status # "active") /\ ~stopped

\* the doctor logs out: the page is left and the application starts over
Logout ==
  /\ loggedIn
  /\ loggedIn' = FALSE
  /\ selectedPatient' = "patient1"
  /\ showLegalNotice' = FALSE
  /\ legalNoticeText' = ""
  /\ pendingGrant' = Null
  /\ noticeAcceptedTick' = 0
  /\ resetPatientUi
  /\ pc' = [t \in Threads |-> "idle"]
  /\ loadSt' = [t \in Threads |-> Null]
  /\ stale' = Null
  /\ pollPc' = "idle"
  /\ pollSt' = Null
  /\ stalePoll' = Null
  /\ lastGate' = NoGate
  /\ UNCHANGED <<envVars, callVars, bootVars, govVars, podVars, toggles, lastOp, gatePassed,
                 ungatedReads, lastAccess>>

\* the doctor selects another patient: the load effect and the revocation
\* effect are torn down and run again
SelectPatient(p) ==
  /\ loggedIn
  /\ p # selectedPatient
  /\ selectedPatient' = p
  /\ StartLoad
  /\ pollPc' = "idle"
  /\ pollSt' = Null
  /\ stalePoll' \in IF ~lateAnswers \/ ~PollerRuns THEN {stalePoll} ELSE InFlight
  /\ UNCHANGED <<envVars, callVars, bootVars, govVars, podVars, toggles, loggedIn, gateVars,
                 lastOp, gatePassed, ungatedReads, lastAccess>>

\* ------------------------------------------------------------------------
\* The doctor's browser: revocation poller
\* ------------------------------------------------------------------------

\* onRevoked / the body of the inline check
onRevoked ==
  /\ showLegalNotice' = FALSE
  /\ pendingGrant' = Null
  /\ fullRecord' = Null
  /\ fullRecordStatus' = 403
  /\ fullRecordError' = MsgRevoked
  /\ patientFiles' = << >>
  /\ UNCHANGED <<legalNoticeText, noticeAcceptedTick, filesLoading, filesError>>

\* a variant of PollRead that takes a failed read for an absent state
PollReadFailClosed ==
  /\ PollerRuns
  /\ pollPc = "idle"
  /\ \E resp \in GetResponses(grantStore, TripleUrl(selectedPatient)) :
       LET r == getActiveGrantState(resp) IN
       /\ pollPc' = "read"
       /\ pollSt' = r.value
       /\ UNCHANGED stalePoll
  /\ UNCHANGED <<envVars, callVars, bootVars, govVars, podVars, toggles, loggedIn,
                 selectedPatient, gateVars, dataVars, loadVars, histVars>>

\* check, up to its await: the timer (or the effect itself) starts a check
\* and the grant state is read; a failed read is ignored
PollRead ==
  /\ PollerRuns
  /\ pollPc = "idle"
  /\ \E resp \in GetResponses(grantStore, TripleUrl(selectedPatient)) :
       LET r == getActiveGrantState(resp) IN
       IF r.threw THEN UNCHANGED pollVars
       ELSE /\ pollPc' = "read"
            /\ pollSt' = r.value
            /\ UNCHANGED stalePoll
  /\ UNCHANGED <<envVars, callVars, bootVars, govVars, podVars, toggles, loggedIn,
                 selectedPatient, gateVars, dataVars, loadVars, histVars>>

\* check, after its await: a state that is absent or not active clears the
\* doctor's data
PollApply ==
  /\ pollPc = "read"
  /\ pollPc' = "idle"
  /\ pollSt' = Null
  /\ UNCHANGED stalePoll
  /\ IF revoked(pollSt, FALSE)
       THEN onRevoked
       ELSE UNCHANGED <<gateVars, dataVars>>
  /\ UNCHANGED <<envVars, callVars, bootVars, govVars, podVars, toggles, loggedIn,
                 selectedPatient, loadVars, histVars>>

\* the check of a poller that was torn down runs on: its request is answered
\* (a failed read is ignored) and its continuation finds stopped set
StalePoll ==
  /\ loggedIn
  /\ stalePoll # Null
  /\ stalePoll.pc # "done"
  /\ \E resp \in GetResponses(grantStore, TripleUrl(stalePoll.patient)) :
       LET r == IF stalePoll.pc = "read"
                  THEN [threw |-> FALSE, value |-> stalePoll.st]
                  ELSE getActiveGrantState(resp) IN
       /\ stalePoll' = IF r.threw THEN Null
                       ELSE [stalePoll EXCEPT !.pc = "done", !.st = r.value]
       /\ IF ~r.threw /\ revoked(r.value, TRUE)
            THEN onRevoked
            ELSE UNCHANGED <<gateVars, dataVars>>
  /\ pollPc' = pollPc
  /\ pollSt' = pollSt
  /\ UNCHANGED <<envVars, callVars, bootVars, govVars, podVars, toggles, loggedIn,
                 selectedPatient, loadVars, histVars>>

\* ------------------------------------------------------------------------
\* The doctor's browser: file actions (canEdit holds for the doctor)
\* ------------------------------------------------------------------------

\* a variant of RemoveId that drops the first entry, whatever its id
RemoveFirst(files, fileId) == IF files = << >> THEN << >> ELSE Tail(files)

\* files.filter((f) => f.id !== fileId); an entry is held as its id
RemoveId(files, fileId) == SelectSeq(files, LAMBDA f : f # fileId)

\* handleFileUpload with no file being edited: savePatientFile (read the
\* list, append, PUT) and the reload of the list.  o is where it stops.
FileAdd(o) ==
  /\ loggedIn
  /\ o \in {"readFails", "putFails", "reloadFails", "returns"}
  /\ NoteRead(selectedPatient, "files.json")
  /\ IF o = "readFails" THEN UNCHANGED <<podStore, nextFileId, patientFiles>>
     ELSE
       LET url   == FilesUrl(selectedPatient)
           files == IF url \in DOMAIN podStore THEN podStore[url] ELSE << >>
           next  == Append(files, nextFileId)
       IN
       /\ nextFileId <= MaxFiles
       /\ nextFileId' = IF o = "putFails" THEN nextFileId ELSE nextFileId + 1
       /\ podStore' = IF o = "putFails" THEN podStore
                      ELSE Put(podStore, url, next)
       /\ patientFiles' = IF o = "returns" THEN next ELSE patientFiles
  /\ UNCHANGED <<envVars, callVars, bootVars, grantStore, ackStore, auditStore, termsStore,
                 nextGrantId, nextEventId, acrStore, toggles, loggedIn,
                 selectedPatient, gateVars, fullRecord, fullRecordStatus,
                 fullRecordError, filesLoading, filesError, loadVars, pollVars,
                 lastOp, lastGate, gatePassed, lastAccess>>

\* handleFileUpload for a file being edited: the displayed list is PUT with
\* that entry changed, then the list is reloaded
FileEdit(o) ==
  /\ loggedIn
  /\ patientFiles # << >>
  /\ o \in {"putFails", "reloadFails", "returns"}
  /\ IF o = "putFails"
       THEN UNCHANGED <<podStore, ungatedReads>>
       ELSE /\ podStore' = Put(podStore, FilesUrl(selectedPatient), patientFiles)
            /\ NoteRead(selectedPatient, "files.json")
  /\ UNCHANGED <<envVars, callVars, bootVars, govVars, acrStore, toggles, loggedIn,
                 selectedPatient, gateVars, dataVars, loadVars, pollVars,
                 lastOp, lastGate, gatePassed, lastAccess>>

\* handleFileDelete: deletePatientFile (read the list, filter, PUT), then
\* the entry leaves the displayed list
FileDelete(fileId, o) ==
  /\ loggedIn
  /\ \E i \in 1..Len(patientFiles) : patientFiles[i] = fileId
  /\ o \in {"readFails", "putFails", "returns"}
  /\ NoteRead(selectedPatient, "files.json")
  /\ LET url   == FilesUrl(selectedPatient)
         files == IF url \in DOMAIN podStore THEN podStore[url] ELSE << >>
     IN
     /\ podStore' = IF o = "returns" THEN Put(podStore, url, RemoveId(files, fileId))
                    ELSE podStore
     /\ patientFiles' = IF o = "returns" THEN RemoveId(patientFiles, fileId)
                        ELSE patientFiles
  /\ UNCHANGED <<envVars, callVars, bootVars, govVars, acrStore, toggles, loggedIn,
                 selectedPatient, gateVars, fullRecord, fullRecordStatus,
                 fullRecordError, filesLoading, filesError, loadVars, pollVars,
                 lastOp, lastGate, gatePassed, lastAccess>>

\* deletePatientFile called for the files resource of p: the list is read
\* (the empty list when the resource is absent), filtered and PUT
DeleteFile(p, fileId) ==
  \E resp \in GetResponses(podStore, FilesUrl(p)) :
    LET files == loadPatientFiles(resp) IN
    /\ podStore' = IF files.threw THEN podStore
                   ELSE Put(podStore, FilesUrl(p), RemoveId(files.value, fileId))
    /\ lastOp' = [ op |-> "deletePatientFile", patient |-> p,
                   result |-> IF files.threw THEN "threw" ELSE "returned",
                   grantId |-> NoId, grantUrl |-> NoUrl,
                   fileId |-> fileId, before |-> files.value ]
    /\ UNCHANGED <<envVars, callVars, bootVars, govVars, acrStore, toggles, loggedIn,
                   selectedPatient, gateVars, dataVars, loadVars, pollVars,
                   lastGate, gatePassed, ungatedReads, lastAccess>>

\* ------------------------------------------------------------------------
\* Two savePatientFile / deletePatientFile calls under way at once, each in
\* its two requests: the GET of loadPatientFiles, then the PUT of the list
\* ------------------------------------------------------------------------

Editors == {1, 2}

\* no call has started
NoEditors ==
  [w \in Editors |-> [ pc |-> "idle", patient |-> NoText, op |-> NoText,
                       fileId |-> NoId, seen |-> << >>, body |-> << >>,
                       overlaps |-> FALSE, order |-> 0 ]]

\* a variant of filesPutIfMatch that sends the list the call read as the
\* precondition of its PUT
filesPutIfMatchSeen(seen) == [given |-> TRUE, tag |-> seen]

\* the precondition the PUT of files.json carries: its headers are
\* Content-Type alone, so none
filesPutIfMatch(seen) == [given |-> FALSE, tag |-> << >>]

\* the status a server gives a PUT of url that it would accept with the
\* status answer: 412 when the precondition names another representation
\* than the stored one (the list stands for its entity tag)
PutStatus(store, url, ifMatch, answer) ==
  IF ~ifMatch.given THEN answer
  ELSE IF (IF url \in DOMAIN store THEN store[url] ELSE << >>) = ifMatch.tag THEN answer
  ELSE 412

\* the first request of savePatientFile (op "add") or of deletePatientFile
\* (op "delete", of the entry fileId): loadPatientFiles, then the list to
\* PUT is built from its result.  overlaps: the other call has read and not
\* yet written
WriteRead(w, p, op, fileId) ==
  /\ editors[w].pc = "idle"
  /\ \E resp \in GetResponses(podStore, FilesUrl(p)) :
       LET files == loadPatientFiles(resp)
           id    == IF op = "add" THEN nextFileId ELSE fileId
       IN
       /\ editors' = [editors EXCEPT ![w] =
            [ pc |-> IF files.threw THEN "failed" ELSE "read",
              patient |-> p, op |-> op, fileId |-> id,
              seen |-> files.value,
              body |-> IF op = "add" THEN Append(files.value, id)
                       ELSE RemoveId(files.value, id),
              overlaps |-> \E v \in Editors \ {w} :
                             editors[v].pc = "read" /\ editors[v].patient = p,
              order |-> 0 ]]
       /\ nextFileId' = IF op = "add" /\ ~files.threw THEN nextFileId + 1
                        ELSE nextFileId
  /\ UNCHANGED <<envVars, fetches, context, bootVars, grantStore, ackStore, auditStore,
                 termsStore, nextGrantId, nextEventId, podVars, toggles,
                 loggedIn, selectedPatient, gateVars, dataVars, loadVars,
                 pollVars, histVars>>

\* the second request: the PUT of the list; the call throws when the answer
\* is not 2xx.  order: its place among the PUTs that were accepted
WritePut(w, answer) ==
  /\ editors[w].pc = "read"
  /\ LET me     == editors[w]
         url    == FilesUrl(me.patient)
         status == PutStatus(podStore, url, filesPutIfMatch(me.seen), answer)
     IN
     /\ podStore' = IF IsOk(status) THEN Put(podStore, url, me.body) ELSE podStore
     /\ editors' = [editors EXCEPT
          ![w].pc = IF IsOk(status) THEN "done" ELSE "failed",
          ![w].order = IF IsOk(status)
                         THEN 1 + Cardinality({v \in Editors : editors[v].pc = "done"})
                         ELSE 0]
  /\ UNCHANGED <<envVars, fetches, context, bootVars, govVars, acrStore, toggles,
                 loggedIn, selectedPatient, gateVars, dataVars, loadVars,
                 pollVars, histVars>>

\* ------------------------------------------------------------------------
\* The patient's browser: the access-control document
\* ------------------------------------------------------------------------

AcrUrl(p) == <<p, "health/.acr">>

\* SOLID_ISSUER and CLIENT_ID of the configuration, PHARMACY_WEBID, NURSE_WEBID
SOLID_ISSUER == "http://localhost:3000/"
CLIENT_ID == "http://localhost:5173/clientid.json"
PHARMACY_WEBID == "pharmacy"
NURSE_WEBID == "nurse"

\* the access modes of acl:
aclRead == "acl:Read"
aclWrite == "acl:Write"
aclAppend == "acl:Append"
aclControl == "acl:Control"

\* matcherBlock: the agent alone, or the agent with the client and the issuer
matcherBlock(agentWebId, restrict) ==
  IF ~restrict THEN [agent |-> agentWebId]
  ELSE [agent |-> agentWebId, client |-> CLIENT_ID, issuer |-> SOLID_ISSUER]

\* a document is held as the sequence of its statements: declarations of an
\* acp:AccessControlResource, which reference access controls by identifier,
\* and acp:AccessControl blocks, which define them
AccessControlResource(id, resource, accessControl, memberAccessControl) ==
  [ a |-> "acp:AccessControlResource", id |-> id, resource |-> resource,
    accessControl |-> accessControl,
    memberAccessControl |-> memberAccessControl ]

AccessControl(id, allow, matcher) ==
  [ a |-> "acp:AccessControl", id |-> id, allow |-> allow, matcher |-> matcher ]

\* the identifiers a statement of the document writes out
Identifiers(statement) ==
  {statement.id} \cup
  (IF statement.a = "acp:AccessControlResource"
     THEN {statement.accessControl[i] : i \in 1..Len(statement.accessControl)}
          \cup {statement.memberAccessControl[i] :
                  i \in 1..Len(statement.memberAccessControl)}
     ELSE {})

\* the text test ttl.includes(token) for the identifier token
Includes(ttl, token) == \E i \in 1..Len(ttl) : token \in Identifiers(ttl[i])

\* the options handleApplyAccess passes to applyAcpForResource
AccessOptions(p, doctorCanReadWrite, emergencyCanRead, pharmacyCanRead, nurseCanReadWrite, restrict) ==
  [ resourceUrl        |-> HealthContainerUrl(p),
    patientWebId       |-> p,
    doctorWebId        |-> DOCTOR_WEBID,
    emergencyWebId     |-> EMERGENCY_WEBID,
    pharmacyWebId      |-> PHARMACY_WEBID,
    nurseWebId         |-> NURSE_WEBID,
    doctorCanReadWrite |-> doctorCanReadWrite,
    emergencyCanRead   |-> emergencyCanRead,
    pharmacyCanRead    |-> pharmacyCanRead,
    nurseCanReadWrite  |-> nurseCanReadWrite,
    restrictToClientAndIssuer |-> restrict ]

\* the blocks both revisions of buildAcrTurtle write after the declarations:
\* the owner's, then one for each role whose flag is set
AccessControlBlocks(opts) ==
  <<AccessControl("<#ownerAccessControl>", {aclRead, aclWrite, aclAppend, aclControl},
                  matcherBlock(opts.patientWebId, opts.restrictToClientAndIssuer))>>
  \o (IF opts.doctorCanReadWrite
        THEN <<AccessControl("<#doctorAccessControl>", {aclRead, aclWrite},
                 matcherBlock(opts.doctorWebId, opts.restrictToClientAndIssuer))>>
        ELSE << >>)
  \o (IF opts.emergencyCanRead
        THEN <<AccessControl("<#emergencyAccessControl>", {aclRead},
                 matcherBlock(opts.emergencyWebId, opts.restrictToClientAndIssuer))>>
        ELSE << >>)
  \o (IF opts.pharmacyCanRead
        THEN <<AccessControl("<#pharmacyAccessControl>", {aclRead},
                 matcherBlock(opts.pharmacyWebId, opts.restrictToClientAndIssuer))>>
        ELSE << >>)
  \o (IF opts.nurseCanReadWrite
        THEN <<AccessControl("<#nurseAccessControl>", {aclRead, aclWrite},
                 matcherBlock(opts.nurseWebId, opts.restrictToClientAndIssuer))>>
        ELSE << >>)

\* a variant of buildAcrTurtle that writes the emergency block whatever the
\* flags say
buildAcrTurtleAlwaysEmergency(opts) ==
  LET accessControls == <<"<#ownerAccessControl>", "<#emergencyAccessControl>">>
  IN
  << AccessControlResource("<#root>", opts.resourceUrl, accessControls,
                           accessControls) >>
  \o AccessControlBlocks([opts EXCEPT !.emergencyCanRead = TRUE])

\* buildAcrTurtle of acp.ts: the root and the two sibling resources reference
\* the list accessControls, then the blocks follow
buildAcrTurtle(opts) ==
  LET accessControls ==
        <<"<#ownerAccessControl>">>
        \o (IF opts.doctorCanReadWrite THEN <<"<#doctorAccessControl>">> ELSE << >>)
        \o (IF opts.emergencyCanRead THEN <<"<#emergencyAccessControl>">> ELSE << >>)
        \o (IF opts.pharmacyCanRead THEN <<"<#pharmacyAccessControl>">> ELSE << >>)
        \o (IF opts.nurseCanReadWrite THEN <<"<#nurseAccessControl>">> ELSE << >>)
  IN
  << AccessControlResource("<#root>", opts.resourceUrl, accessControls,
                           accessControls),
     AccessControlResource("<#filesJsonACR>", <<opts.resourceUrl, "files.json">>,
                           accessControls, << >>),
     AccessControlResource("<#fullRecordJsonACR>",
                           <<opts.resourceUrl, "full-record.json">>,
                           accessControls, << >>) >>
  \o AccessControlBlocks(opts)

\* buildAcrTurtle of the other revision: the root references the list
\* accessControls, whose entries are named ...Access; the health container
\* and the two sibling resources reference the ...AccessControl identifiers
buildAcrTurtleVariant(opts) ==
  LET accessControls ==
        <<"<#ownerAccess>">>
        \o (IF opts.doctorCanReadWrite THEN <<"<#doctorAccess>">> ELSE << >>)
        \o (IF opts.emergencyCanRead THEN <<"<#emergencyAccess>">> ELSE << >>)
        \o (IF opts.pharmacyCanRead THEN <<"<#pharmacyAccess>">> ELSE << >>)
        \o (IF opts.nurseCanReadWrite THEN <<"<#nurseAccess>">> ELSE << >>)
      written ==
        <<"<#ownerAccessControl>">>
        \o (IF opts.doctorCanReadWrite THEN <<"<#doctorAccessControl>">> ELSE << >>)
        \o (IF opts.emergencyCanRead THEN <<"<#emergencyAccessControl>">> ELSE << >>)
        \o (IF opts.pharmacyCanRead THEN <<"<#pharmacyAccessControl>">> ELSE << >>)
        \o (IF opts.nurseCanReadWrite THEN <<"<#nurseAccessControl>">> ELSE << >>)
  IN
  << AccessControlResource("<#root>", opts.resourceUrl, accessControls,
                           accessControls),
     AccessControlResource("<#healthContainerACR>", opts.resourceUrl,
                           written, << >>),
     AccessControlResource("<#filesJsonACR>", <<opts.resourceUrl, "files.json">>,
                           written, << >>),
     AccessControlResource("<#fullRecordJsonACR>",
                           <<opts.resourceUrl, "full-record.json">>,
                           written, << >>) >>
  \o AccessControlBlocks(opts)

\* the document the revision that runs builds
AcrTurtle(opts) ==
  IF acpImpl = "acr" THEN buildAcrTurtle(opts) ELSE buildAcrTurtleVariant(opts)

\* a variant of PatientApply that goes on to the governance call when the
\* PUT of the access-control document failed
PatientApplyGoesOn(p, doc, em, acrOk, o) ==
  /\ toggles' = [doctorCanReadWrite |-> doc, emergencyCanRead |-> em]
  /\ acrStore' = IF acrOk
                   THEN Put(acrStore, AcrUrl(p),
                            AcrTurtle(AccessOptions(p, doc, em, FALSE, FALSE, TRUE)))
                   ELSE acrStore
  /\ IF doc THEN createGrantAndActivate(p, DOCTOR_WEBID, HealthContainerUrl(p), o)
     ELSE revokeActiveGrant(p, DOCTOR_WEBID, HealthContainerUrl(p), o)
  /\ UNCHANGED <<envVars, callVars, bootVars, podStore, loggedIn, selectedPatient, gateVars,
                 dataVars, loadVars, pollVars, lastGate, gatePassed,
                 ungatedReads, lastAccess>>

\* handleApplyAccess with the check boxes set to doc and em: the
\* access-control document is PUT, then the grant is created (doc) or
\* revoked (not doc).  acrOk says whether the first PUT succeeds, o is where
\* the governance call stops.
PatientApply(p, doc, em, acrOk, o) ==
  /\ toggles' = [doctorCanReadWrite |-> doc, emergencyCanRead |-> em]
  /\ IF ~acrOk
       THEN UNCHANGED <<acrStore, govVars, lastOp>>
       ELSE /\ acrStore' = Put(acrStore, AcrUrl(p),
                             AcrTurtle(AccessOptions(p, doc, em, FALSE, FALSE, TRUE)))
            /\ IF doc
                 THEN createGrantAndActivate(p, DOCTOR_WEBID,
                                             HealthContainerUrl(p), o)
                 ELSE revokeActiveGrant(p, DOCTOR_WEBID,
                                        HealthContainerUrl(p), o)
  /\ UNCHANGED <<envVars, callVars, bootVars, podStore, loggedIn, selectedPatient, gateVars,
                 dataVars, loadVars, pollVars, lastGate, gatePassed,
                 ungatedReads, lastAccess>>

\* detectRole: the role of the identity id (undefined when nobody is
\* logged in); a patient is named by the web id
detectRole(id) ==
  IF id = NoText THEN "unknown"
  ELSE IF id = GOVERNANCE_WEBID THEN "governance"
  ELSE IF \E key \in PATIENTS : key = id THEN "patient"
  ELSE IF id = DOCTOR_WEBID THEN "doctor"
  ELSE IF id = EMERGENCY_WEBID THEN "emergency"
  ELSE IF id = PHARMACY_WEBID THEN "pharmacy"
  ELSE IF id = NURSE_WEBID THEN "nurse"
  ELSE "unknown"

\* getEffectivePatientKey
getEffectivePatientKey(role, webId, selected) ==
  IF role = "patient"
    THEN IF webId = NoText THEN NoText
         ELSE IF \E k \in PATIENTS : k = webId
                THEN CHOOSE k \in PATIENTS : k = webId
                ELSE NoText
  ELSE IF role = "governance" THEN NoText
  ELSE selected

\* effectivePatientKey of usePatientContext: none while logged out
EffectivePatient ==
  IF ~context.loggedIn THEN NoText
  ELSE getEffectivePatientKey(detectRole(context.webId), context.webId,
                              context.selectedPatient)

\* a variant of isOwner that asks for a resolved patient only
isOwnerAnyRole(role, effectivePatientWebId, webId) == effectivePatientWebId # NoText

\* isOwner of renderAccessControls / AccessControls
isOwner(role, effectivePatientWebId, webId) ==
  /\ role = "patient"
  /\ effectivePatientWebId # NoText
  /\ effectivePatientWebId = webId

\* an identity logs in at the browser; the selection starts at patient1
ContextLogin(id) ==
  /\ ~context.loggedIn
  /\ context' = [loggedIn |-> TRUE, webId |-> id, selectedPatient |-> "patient1"]
  /\ UNCHANGED <<envVars, editors, fetches, bootVars, govVars, podVars, toggles,
                 loggedIn, selectedPatient, gateVars, dataVars, loadVars,
                 pollVars, histVars>>

ContextLogout ==
  /\ context.loggedIn
  /\ context' = [loggedIn |-> FALSE, webId |-> NoText, selectedPatient |-> "patient1"]
  /\ UNCHANGED <<envVars, editors, fetches, bootVars, govVars, podVars, toggles,
                 loggedIn, selectedPatient, gateVars, dataVars, loadVars,
                 pollVars, histVars>>

\* setSelectedPatient
ContextSelect(p) ==
  /\ context.loggedIn
  /\ context' = [context EXCEPT !.selectedPatient = p]
  /\ UNCHANGED <<envVars, editors, fetches, bootVars, govVars, podVars, toggles,
                 loggedIn, selectedPatient, gateVars, dataVars, loadVars,
                 pollVars, histVars>>

\* the button of the access controls is offered and pressed:
\* handleApplyAccess runs for the effective patient
ApplyAccess(doc, em, acrOk, o) ==
  /\ context.loggedIn
  /\ detectRole(context.webId) # "governance"
  /\ isOwner(detectRole(context.webId), EffectivePatient, context.webId)
  /\ EffectivePatient # NoText
  /\ PatientApply(EffectivePatient, doc, em, acrOk, o)

\* applyAcpForResource called with the options of any role flags: the
\* document is built and PUT at the location of the access-control document;
\* ok says whether the PUT succeeds
ApplyAcp(p, d, e, ph, n, restrict, ok) ==
  LET opts == AccessOptions(p, d, e, ph, n, restrict) IN
  /\ acrStore' = IF ok THEN Put(acrStore, AcrUrl(p), AcrTurtle(opts))
                 ELSE acrStore
  /\ lastOp' = [ op |-> "applyAcpForResource", patient |-> p,
                 result |-> IF ok THEN "returned" ELSE "threw",
                 grantId |-> NoId, grantUrl |-> NoUrl, options |-> opts ]
  /\ UNCHANGED <<envVars, callVars, bootVars, govVars, podStore, toggles, loggedIn,
                 selectedPatient, gateVars, dataVars, loadVars, pollVars,
                 lastGate, gatePassed, ungatedReads, lastAccess>>

\* what a readAccessForFullRecord call gives back
AccessResult(threw, doc, em) ==
  [threw |-> threw, doctorCanReadWrite |-> doc, emergencyCanRead |-> em]

\* readAccessForFullRecord of acp.ts on the answer to the GET of the
\* access-control document
readAccessFromAcr(resp) ==
  IF resp.status = NetworkError THEN AccessResult(TRUE, FALSE, FALSE)
  ELSE IF resp.status = 404 THEN AccessResult(FALSE, FALSE, FALSE)
  ELSE IF ~IsOk(resp.status) THEN AccessResult(FALSE, FALSE, FALSE)
  ELSE AccessResult(FALSE, Includes(resp.body, "<#doctorAccessControl>"),
                    Includes(resp.body, "<#emergencyAccessControl>"))

\* checkAccess of the probing readAccessForFullRecord: a request that is
\* answered counts as access unless the answer is 403
checkAccess(status) == status # 403

\* the probing readAccessForFullRecord on the statuses of its three
\* requests to full-record.json (GET, PUT, GET); a request that rejects
\* ends the probe with what was assigned before
readAccessFromProbe(get1, put, get2) ==
  IF get1 = NetworkError THEN AccessResult(FALSE, FALSE, FALSE)
  ELSE IF checkAccess(get1) /\ put = NetworkError
    THEN AccessResult(FALSE, FALSE, FALSE)
  ELSE LET doc == checkAccess(get1) /\ checkAccess(put) IN
       IF get2 = NetworkError THEN AccessResult(FALSE, doc, FALSE)
       ELSE AccessResult(FALSE, doc, checkAccess(get2))

\* the status of a GET of url
GetStatuses(store, url) == {r.status : r \in GetResponses(store, url)}

\* the status of the probe's PUT, which carries no body: the server takes
\* it (the resource is then empty) or refuses it
PutStatuses == {205, 400} \cup serverFaults

\* the record of a finished readAccessForFullRecord call: the patient, the
\* status of the access-control document (as the GET of it was answered;
\* the probe makes none, and the status is what the store holds), and the
\* result
AccessRecord(p, acrStatus, result) ==
  [ patient |-> p, acrStatus |-> acrStatus, result |-> result ]

NoAccess == AccessRecord(NoText, NoStatus, AccessResult(FALSE, FALSE, FALSE))

\* the patient's load effect syncs the check boxes with what
\* readAccessForFullRecord returns; an exception leaves them as they are
ReadAccess(p) ==
  /\ IF acpImpl = "acr" THEN
       \E resp \in GetResponses(acrStore, AcrUrl(p)) :
         LET r == readAccessFromAcr(resp) IN
         /\ lastAccess' = AccessRecord(p, resp.status, r)
         /\ toggles' = IF r.threw THEN toggles
                       ELSE [ doctorCanReadWrite |-> r.doctorCanReadWrite,
                              emergencyCanRead |-> r.emergencyCanRead ]
         /\ UNCHANGED podStore
     ELSE
       \E get1 \in GetStatuses(podStore, RecordUrl(p)), put \in PutStatuses :
         LET acr   == IF AcrUrl(p) \in DOMAIN acrStore THEN 200 ELSE 404
             taken == checkAccess(get1) /\ get1 # NetworkError /\ IsOk(put)
             after == IF taken THEN Put(podStore, RecordUrl(p), Malformed)
                      ELSE podStore
         IN
         \E get2 \in GetStatuses(after, RecordUrl(p)) :
           LET r == readAccessFromProbe(get1, put, get2) IN
           /\ lastAccess' = AccessRecord(p, acr, r)
           /\ toggles' = [ doctorCanReadWrite |-> r.doctorCanReadWrite,
                           emergencyCanRead |-> r.emergencyCanRead ]
           /\ podStore' = after
  /\ UNCHANGED <<envVars, callVars, bootVars, govVars, acrStore, loggedIn, selectedPatient,
                 gateVars, dataVars, loadVars, pollVars, lastOp, lastGate,
                 gatePassed, ungatedReads>>

\* ------------------------------------------------------------------------
\* bootstrapGovernanceStore
\* ------------------------------------------------------------------------

\* the containers bootstrapGovernanceStore ensures, in the order of its calls
GovContainers ==
  << "notices/", "grants/", "grants/state/", "grants/acks/", "audit/",
     "audit/events/" >>

\* a variant of ensureContainer that creates without looking first and takes
\* a container that is already there for a failure
ensureContainerCreateOnly(containers, containerUrl, get, put) ==
  IF IsOk(get) \/ ~IsOk(put)
    THEN [threw |-> TRUE, containers |-> containers]
    ELSE [threw |-> FALSE, containers |-> containers \cup {containerUrl}]

\* ensureContainer on the statuses of its GET and of the PUT that follows a
\* 404: a container that is there is left alone, any other answer than 404
\* is an exception, and the PUT may be answered with 412
ensureContainer(containers, containerUrl, get, put) ==
  IF IsOk(get) THEN [threw |-> FALSE, containers |-> containers]
  ELSE IF get # 404 THEN [threw |-> TRUE, containers |-> containers]
  ELSE IF ~IsOk(put) /\ put # 412
    THEN [threw |-> TRUE, containers |-> containers]
  ELSE [threw |-> FALSE,
        containers |-> IF IsOk(put) THEN containers \cup {containerUrl}
                       ELSE containers]

\* putText on the status of its PUT, which replaces the text that is there
putText(store, url, text, status) ==
  [ threw |-> ~IsOk(status) /\ status # 412,
    store |-> IF IsOk(status) THEN Put(store, url, text) ELSE store ]

\* putAcr on the status of its PUT at the location <resourceUrl>.acr
putAcr(store, resourceUrl, turtle, status) ==
  [ threw |-> ~IsOk(status),
    store |-> IF IsOk(status) THEN Put(store, <<resourceUrl, ".acr">>, turtle)
              ELSE store ]

\* matcherAgentsBlock: one matcher that names the agents
matcherAgentsBlock(agentWebIds) == [agents |-> agentWebIds]

\* a variant of buildContainerAcr whose readers may write as well
buildContainerAcrReadersWrite(resourceUrl, ownerWebId, readers, writers) ==
  LET accessControls ==
        <<"<#owner>">> \o (IF readers # {} THEN <<"<#readers>">> ELSE << >>)
  IN
  <<AccessControlResource("<#root>", resourceUrl, accessControls, accessControls),
    AccessControl("<#owner>", {aclRead, aclWrite, aclAppend, aclControl},
                  matcherAgentsBlock({ownerWebId}))>>
  \o (IF readers # {}
        THEN <<AccessControl("<#readers>", {aclRead, aclWrite, aclAppend},
                             matcherAgentsBlock(readers))>>
        ELSE << >>)

\* buildContainerAcr: the owner's block, a block of the readers and a block
\* of the writers when there are any, all three referenced by the root for
\* the container and for its members
buildContainerAcr(resourceUrl, ownerWebId, readers, writers) ==
  LET accessControls ==
        <<"<#owner>">> \o (IF readers # {} THEN <<"<#readers>">> ELSE << >>)
                       \o (IF writers # {} THEN <<"<#writers>">> ELSE << >>)
  IN
  <<AccessControlResource("<#root>", resourceUrl, accessControls, accessControls),
    AccessControl("<#owner>", {aclRead, aclWrite, aclAppend, aclControl},
                  matcherAgentsBlock({ownerWebId}))>>
  \o (IF readers # {}
        THEN <<AccessControl("<#readers>", {aclRead}, matcherAgentsBlock(readers))>>
        ELSE << >>)
  \o (IF writers # {}
        THEN <<AccessControl("<#writers>", {aclWrite, aclAppend},
                             matcherAgentsBlock(writers))>>
        ELSE << >>)

\* buildResourceAcr: the same for one resource, with no writers and no
\* member access controls
buildResourceAcr(resourceUrl, ownerWebId, readers) ==
  LET accessControls ==
        <<"<#owner>">> \o (IF readers # {} THEN <<"<#readers>">> ELSE << >>)
  IN
  <<AccessControlResource("<#root>", resourceUrl, accessControls, << >>),
    AccessControl("<#owner>", {aclRead, aclWrite, aclAppend, aclControl},
                  matcherAgentsBlock({ownerWebId}))>>
  \o (IF readers # {}
        THEN <<AccessControl("<#readers>", {aclRead}, matcherAgentsBlock(readers))>>
        ELSE << >>)

\* the access-control documents bootstrapGovernanceStore writes, in the order
\* of its calls, each with the resource it belongs to
BootstrapAcrs ==
  LET patientWebIds == PATIENTS
      actors        == {DOCTOR_WEBID} \cup patientWebIds
  IN
  << <<"notices/",
       buildContainerAcr("notices/", GOVERNANCE_WEBID, actors, {})>>,
     <<termsUrl, buildResourceAcr(termsUrl, GOVERNANCE_WEBID, actors)>>,
     <<"grants/state/",
       buildContainerAcr("grants/state/", GOVERNANCE_WEBID, actors, patientWebIds)>>,
     <<"grants/acks/",
       buildContainerAcr("grants/acks/", GOVERNANCE_WEBID, actors, {DOCTOR_WEBID})>>,
     <<"audit/events/",
       buildContainerAcr("audit/events/", GOVERNANCE_WEBID, {}, actors)>> >>

\* the requests of one bootstrapGovernanceStore call are numbered in the
\* order they are made (a container's GET and PUT count as one); the request
\* failAt is answered with the fault st, every other one from the stores
BootAnswer(i, failAt, st, normal) == IF failAt = i THEN st ELSE normal

\* the status a server gives a PUT it accepts
Accepted(store, url) == IF url \in DOMAIN store THEN 205 ELSE 201

RECURSIVE ensureContainers(_, _, _, _)
\* the ensureContainer calls from the i-th on
ensureContainers(i, containers, failAt, st) ==
  IF i > Len(GovContainers) THEN [threw |-> FALSE, containers |-> containers]
  ELSE LET get == BootAnswer(i, failAt, st,
                             IF GovContainers[i] \in containers THEN 200 ELSE 404)
           r   == ensureContainer(containers, GovContainers[i], get, 201)
       IN IF r.threw THEN r ELSE ensureContainers(i + 1, r.containers, failAt, st)

RECURSIVE putAcrs(_, _, _, _)
\* the putAcr calls from the i-th on
putAcrs(i, store, failAt, st) ==
  IF i > Len(BootstrapAcrs) THEN [threw |-> FALSE, store |-> store]
  ELSE LET url == BootstrapAcrs[i][1]
           r   == putAcr(store, url, BootstrapAcrs[i][2],
                         BootAnswer(Len(GovContainers) + 1 + i, failAt, st,
                                    Accepted(store, <<url, ".acr">>)))
       IN IF r.threw THEN r ELSE putAcrs(i + 1, r.store, failAt, st)

\* the number of requests of a call that no exception ends
BootRequests == Len(GovContainers) + 1 + Len(BootstrapAcrs) + 1

\* bootstrapGovernanceStore, run by the governance identity: the containers,
\* the terms text, the access-control documents, then the audit event; an
\* exception ends the call where it is thrown
bootstrapGovernanceStore(failAt, st) ==
  /\ nextEventId <= MaxEvents
  /\ LET ensured == ensureContainers(1, govContainers, failAt, st)
         terms   == IF ensured.threw THEN [threw |-> TRUE, store |-> termsStore]
                    ELSE putText(termsStore, termsUrl, TERMS_TEXT,
                                 BootAnswer(Len(GovContainers) + 1, failAt, st,
                                            Accepted(termsStore, termsUrl)))
         acrs    == IF terms.threw THEN [threw |-> TRUE, store |-> govAcrStore]
                    ELSE putAcrs(1, govAcrStore, failAt, st)
         audited == ~acrs.threw /\ failAt # BootRequests
     IN
     /\ govContainers' = ensured.containers
     /\ termsStore' = terms.store
     /\ govAcrStore' = acrs.store
     /\ auditStore' = IF audited
                        THEN writeAudit(auditStore, nextEventId, nowIso, BootstrapEvent)
                        ELSE auditStore
     /\ nextEventId' = IF audited THEN nextEventId + 1 ELSE nextEventId
     /\ lastOp' = [ op |-> "bootstrapGovernanceStore",
                    patient |-> GOVERNANCE_WEBID,
                    result |-> IF audited THEN "returned" ELSE "threw",
                    grantId |-> NoId, grantUrl |-> NoUrl,
                    failAt |-> failAt, eventId |-> nextEventId ]
  /\ UNCHANGED <<envVars, callVars, grantStore, ackStore, nextGrantId, nextFileId,
                 podVars, toggles, loggedIn, selectedPatient, gateVars,
                 dataVars, loadVars, pollVars, lastGate, gatePassed,
                 ungatedReads, lastAccess>>

\* one call of bootstrapGovernanceStore with no other call under way
Bootstrap(failAt, st) ==
  /\ bootstrapGovernanceStore(failAt, st)
  /\ UNCHANGED racers

\* two calls of bootstrapGovernanceStore under way at once, each request a
\* step of its own
Racers == {1, 2}

NoRacers == [c \in Racers |-> [i |-> 0, step |-> "idle"]]

\* the answers a server may give the PUT, sent with no precondition, of a
\* container that exists by now: it takes the body, it reports a conflict,
\* or it reports a failed precondition
ExistsAnswers == {205, 409, 412}

\* the position of a call whose ensureContainer for the i-th container has
\* returned
Ensured(i) ==
  IF i < Len(GovContainers) THEN [i |-> i + 1, step |-> "get"]
  ELSE [i |-> i, step |-> "rest"]

\* ensureContainer of call c, up to the answer to its GET
RaceGet(c) ==
  /\ racers[c].step = "get"
  /\ LET url == GovContainers[racers[c].i]
         get == IF url \in govContainers THEN 200 ELSE 404
         r   == ensureContainer(govContainers, url, get, 201)
     IN racers' = [racers EXCEPT ![c] =
                     IF get = 404 THEN [i |-> racers[c].i, step |-> "put"]
                     ELSE IF r.threw THEN [i |-> racers[c].i, step |-> "failed"]
                     ELSE Ensured(racers[c].i)]
  /\ UNCHANGED <<envVars, callVars, govContainers, govAcrStore, govVars, podVars, toggles,
                 loggedIn, selectedPatient, gateVars, dataVars, loadVars,
                 pollVars, histVars>>

\* ensureContainer of call c, from its PUT on: the server creates the
\* container, or answers for one that the other call has created meanwhile
RacePut(c, answer) ==
  /\ racers[c].step = "put"
  /\ LET url == GovContainers[racers[c].i]
         put == IF url \in govContainers THEN answer ELSE 201
         r   == ensureContainer(govContainers, url, 404, put)
     IN /\ govContainers' = r.containers
        /\ racers' = [racers EXCEPT ![c] =
                        IF r.threw THEN [i |-> racers[c].i, step |-> "failed"]
                        ELSE Ensured(racers[c].i)]
  /\ UNCHANGED <<envVars, callVars, govAcrStore, govVars, podVars, toggles, loggedIn,
                 selectedPatient, gateVars, dataVars, loadVars, pollVars,
                 histVars>>

\* the rest of call c: the terms text, the access-control documents and the
\* audit event
RaceRest(c) ==
  /\ racers[c].step = "rest"
  /\ bootstrapGovernanceStore(0, 0)
  /\ racers' = [racers EXCEPT ![c] = [i |-> racers[c].i, step |-> "done"]]

\* ------------------------------------------------------------------------
\* Initial states
\* ------------------------------------------------------------------------

\* the governance pod after bootstrapGovernanceStore ran (its audit event
\* has the id 0)
InitGovernance ==
  /\ grantStore = Empty
  /\ ackStore = Empty
  /\ termsStore = Put(Empty, termsUrl, TERMS_TEXT)
  /\ govContainers = {GovContainers[i] : i \in 1..Len(GovContainers)}
  /\ govAcrStore = putAcrs(1, Empty, 0, 0).store
  /\ racers = NoRacers
  /\ auditStore = writeAudit(Empty, 0, 0, BootstrapEvent)
  /\ nextGrantId = 1
  /\ nextEventId = 1
  /\ nextFileId = 1

\* patient1 has a record and a files resource, patient2 has neither yet
InitPods ==
  /\ podStore = Put(Put(Empty, RecordUrl("patient1"), [patientName |-> "patient1"]),
                    FilesUrl("patient1"), << >>)
  /\ acrStore = Empty

InitBrowsers ==
  /\ toggles = [doctorCanReadWrite |-> FALSE, emergencyCanRead |-> FALSE]
  /\ loggedIn = FALSE
  /\ selectedPatient = "patient1"
  /\ showLegalNotice = FALSE
  /\ legalNoticeText = ""
  /\ pendingGrant = Null
  /\ noticeAcceptedTick = 0
  /\ fullRecord = Null
  /\ fullRecordStatus = NoStatus
  /\ fullRecordError = NoText
  /\ patientFiles = << >>
  /\ filesLoading = FALSE
  /\ filesError = NoText
  /\ pc = [t \in Threads |-> "idle"]
  /\ loadSt = [t \in Threads |-> Null]
  /\ stale = Null
  /\ pollPc = "idle"
  /\ pollSt = Null
  /\ stalePoll = Null
  /\ editors = NoEditors
  /\ fetches = NoFetches
  /\ context = [loggedIn |-> FALSE, webId |-> NoText, selectedPatient |-> "patient1"]

NoOp == [ op |-> "none", patient |-> NoText, result |-> NoText,
          grantId |-> NoId, grantUrl |-> NoUrl ]

InitHistory ==
  /\ lastOp = NoOp
  /\ lastGate = NoGate
  /\ gatePassed = {}
  /\ ungatedReads = {}
  /\ lastAccess = NoAccess

\* the applications start on a bootstrapped governance pod; every request
\* is answered from the stores
Init ==
  /\ serverFaults = {}
  /\ lateAnswers = FALSE
  /\ app \in {"inline", "hooks"}
  /\ acpImpl = "acr"
  /\ InitGovernance
  /\ InitPods
  /\ InitBrowsers
  /\ InitHistory

\* ------------------------------------------------------------------------
\* Next-state relations and specifications
\* ------------------------------------------------------------------------

\* the patient's browser
Patient ==
  \E p \in PATIENTS, doc \in BOOLEAN,
     o \in Outcomes({"stateGetFails", "statePutFails", "auditPutFails",
                     "returns"}) :
    PatientApply(p, doc, FALSE, TRUE, o)

\* the doctor's browser: session, gate, load sequence, notice
Doctor ==
  \/ Login
  \/ Logout
  \/ \E p \in PATIENTS : SelectPatient(p)
  \/ \E t \in Threads : GateState(t)
  \/ \E t \in Threads : GateAck(t)
  \/ \E t \in Threads : GateTerms(t)
  \/ \E t \in Threads : LoadRecord(t)
  \/ \E t \in Threads : LoadFiles(t)
  \/ \E o \in Outcomes({"ackPutFails", "auditPutFails", "returns"}) :
       AcceptNotice(o)
  \/ CancelNotice

\* the doctor's browser: the revocation poller
Poller ==
  \/ PollRead
  \/ PollApply

\* the doctor's browser: the file actions
FileActions ==
  \/ \E o \in Outcomes({"readFails", "putFails", "reloadFails", "returns"}) :
       FileAdd(o)
  \/ \E o \in Outcomes({"putFails", "reloadFails", "returns"}) : FileEdit(o)
  \/ \E f \in 1..MaxFiles, o \in Outcomes({"readFails", "putFails", "returns"}) :
       FileDelete(f, o)

\* the grant protocol between the patients' and the doctor's browser
Next ==
  \/ Patient
  \/ Doctor

Spec == Init /\ [][Next]_vars

\* the protocol and the doctor's file actions
NextFiles ==
  \/ Patient
  \/ Doctor
  \/ FileActions

SpecFiles == Init /\ [][NextFiles]_vars

\* the protocol and the revocation poller
NextPoll ==
  \/ Patient
  \/ Doctor
  \/ Poller

\* a step of a load sequence that is under way
LoadStep ==
  \E t \in Threads :
    GateState(t) \/ GateAck(t) \/ GateTerms(t) \/ LoadRecord(t) \/ LoadFiles(t)

\* a request that was made gets its answer, and the timer of a running
\* poller fires again and again
SpecPoll ==
  /\ Init
  /\ [][NextPoll]_vars
  /\ WF_vars(LoadStep)
  /\ WF_vars(PollRead)
  /\ WF_vars(PollApply)

\* ------------------------------------------------------------------------
\* The gate on every governance store it may meet
\* ------------------------------------------------------------------------

\* the grant of patient1 the gate meets
GateGrant ==
  NewGrantState("patient1", DOCTOR_WEBID, HealthContainerUrl("patient1"), 1, 1)

\* the state resource of the triple: never written, the grant, the grant
\* revoked, or a record another writer of the container left with no
\* acknowledgement location
GateStates ==
  [ absent     |-> Null,
    active     |-> GateGrant,
    revoked    |-> RevokedState(GateGrant, 2),
    nolocation |-> [GateGrant EXCEPT !.activeGrantUrl = NoUrl] ]

\* the acknowledgement resource of the grant: never written, written by
\* acknowledgeGrant, or left by another writer of the container with a body
\* that names somebody else or does not parse
GateAcks ==
  [ absent    |-> Null,
    doctor    |-> NewAck(DOCTOR_WEBID, GateGrant.termsVersion,
                         GateGrant.termsHash),
    other     |-> NewAck(EMERGENCY_WEBID, GateGrant.termsVersion,
                         GateGrant.termsHash),
    malformed |-> Malformed ]

\* the audit events of that history, in the order they were written
GateEvents(st, ack) ==
  (IF st = "absent" THEN << >> ELSE <<GrantEvent(GateGrant)>>)
  \o (IF st # "absent" /\ ack = "doctor"
        THEN <<AckEvent(GateGrant, DOCTOR_WEBID)>> ELSE << >>)
  \o (IF st = "revoked"
        THEN <<RevokeEvent(GateGrant, GateGrant.patientWebId,
                           GateGrant.doctorWebId, GateGrant.scopeUrl)>>
        ELSE << >>)

\* the audit store holding the bootstrap event and events
AuditOf(events) ==
  [ u \in {auditUrl(i) : i \in 0..Len(events)} |->
      LET i == u[2] IN
      IF i = 0 THEN AuditEvent(0, 0, BootstrapEvent)
      ELSE AuditEvent(i, i, events[i]) ]

InitGate ==
  /\ serverFaults = FailStatuses
  /\ lateAnswers = FALSE
  /\ app \in {"inline", "hooks"}
  /\ acpImpl = "acr"
  /\ \E st \in DOMAIN GateStates, ack \in DOMAIN GateAcks, terms \in BOOLEAN :
       /\ grantStore = IF st = "absent" THEN Empty
                       ELSE Put(Empty, TripleUrl("patient1"), GateStates[st])
       /\ ackStore = IF st = "absent" \/ ack = "absent" THEN Empty
                     ELSE Put(Empty, GateGrant.activeGrantUrl, GateAcks[ack])
       /\ termsStore = IF terms THEN Put(Empty, termsUrl, TERMS_TEXT) ELSE Empty
       /\ auditStore = AuditOf(GateEvents(st, ack))
       /\ nextGrantId = IF st = "absent" THEN 1 ELSE 2
       /\ nextEventId = Len(GateEvents(st, ack)) + 1
       /\ nextFileId = 1
  /\ govContainers = {GovContainers[i] : i \in 1..Len(GovContainers)}
  /\ govAcrStore = putAcrs(1, Empty, 0, 0).store
  /\ racers = NoRacers
  /\ InitPods
  /\ InitBrowsers
  /\ InitHistory

\* the doctor logs in and the load effect runs; requests may be refused
NextGate ==
  \/ Login
  \/ \E t \in Threads : GateState(t)
  \/ \E t \in Threads : GateAck(t)
  \/ \E t \in Threads : GateTerms(t)
  \/ \E t \in Threads : LoadRecord(t)
  \/ \E t \in Threads : LoadFiles(t)

SpecGate == InitGate /\ [][NextGate]_vars

\* ------------------------------------------------------------------------
\* The access-control document: written by the patient, read back by
\* either revision of readAccessForFullRecord, requests may fail
\* ------------------------------------------------------------------------

InitAcp ==
  /\ serverFaults = AllFaults
  /\ lateAnswers = FALSE
  /\ app = "hooks"
  /\ acpImpl \in {"acr", "probe"}
  /\ InitGovernance
  /\ InitPods
  /\ InitBrowsers
  /\ InitHistory

\* patient1 applies any choice of the check boxes; the browser of either
\* patient reads the access back
NextAcp ==
  \/ \E doc \in BOOLEAN, em \in BOOLEAN, acrOk \in BOOLEAN :
       PatientApply("patient1", doc, em, acrOk, "returns")
  \/ \E p \in PATIENTS : ReadAccess(p)

SpecAcp == InitAcp /\ [][NextAcp]_vars

\* ------------------------------------------------------------------------
\* The notice: the doctor meets the grant of patient1, issued under the
\* terms of today or under earlier ones, and accepts or cancels the notice;
\* requests may be refused
\* ------------------------------------------------------------------------

\* the grant as a deployment with earlier terms wrote it
EarlierGrant ==
  [GateGrant EXCEPT !.termsVersion = "v0.9",
                    !.termsHash = sha256Hex(<<"v0.9", "Earlier Notice">>)]

InitAccept ==
  /\ serverFaults = FailStatuses
  /\ lateAnswers = FALSE
  /\ app \in {"inline", "hooks"}
  /\ acpImpl = "acr"
  /\ \E grant \in {GateGrant, EarlierGrant} :
       /\ grantStore = Put(Empty, TripleUrl("patient1"), grant)
       /\ auditStore = AuditOf(<<[GrantEvent(grant) EXCEPT
                                    !.termsVersion = grant.termsVersion,
                                    !.termsHash = grant.termsHash]>>)
  /\ ackStore = Empty
  /\ termsStore = Put(Empty, termsUrl, TERMS_TEXT)
  /\ govContainers = {GovContainers[i] : i \in 1..Len(GovContainers)}
  /\ govAcrStore = putAcrs(1, Empty, 0, 0).store
  /\ racers = NoRacers
  /\ nextGrantId = 2
  /\ nextEventId = 2
  /\ nextFileId = 1
  /\ InitPods
  /\ InitBrowsers
  /\ InitHistory

NextAccept ==
  \/ Login
  \/ \E t \in Threads : GateState(t)
  \/ \E t \in Threads : GateAck(t)
  \/ \E t \in Threads : GateTerms(t)
  \/ \E t \in Threads : LoadRecord(t)
  \/ \E t \in Threads : LoadFiles(t)
  \/ \E o \in {"ackPutFails", "auditPutFails", "returns"} : AcceptNotice(o)
  \/ CancelNotice

SpecAccept == InitAccept /\ [][NextAccept]_vars

\* ------------------------------------------------------------------------
\* Context changes under way: the doctor meets the unacknowledged grant of
\* patient1, changes the patient, accepts or cancels the notice, logs out
\* and in; the requests of an abandoned sequence are still answered
\* ------------------------------------------------------------------------

InitStale ==
  /\ serverFaults = {}
  /\ lateAnswers = TRUE
  /\ app \in {"inline", "hooks"}
  /\ acpImpl = "acr"
  /\ grantStore = Put(Empty, TripleUrl("patient1"), GateGrant)
  /\ auditStore = AuditOf(<<GrantEvent(GateGrant)>>)
  /\ ackStore = Empty
  /\ termsStore = Put(Empty, termsUrl, TERMS_TEXT)
  /\ govContainers = {GovContainers[i] : i \in 1..Len(GovContainers)}
  /\ govAcrStore = putAcrs(1, Empty, 0, 0).store
  /\ racers = NoRacers
  /\ nextGrantId = 2
  /\ nextEventId = 2
  /\ nextFileId = 1
  /\ InitPods
  /\ InitBrowsers
  /\ InitHistory

NextStale ==
  \/ Login
  \/ Logout
  \/ \E p \in PATIENTS : SelectPatient(p)
  \/ \E t \in Threads : GateState(t)
  \/ \E t \in Threads : GateAck(t)
  \/ \E t \in Threads : GateTerms(t)
  \/ \E t \in Threads : LoadRecord(t)
  \/ \E t \in Threads : LoadFiles(t)
  \/ StaleGate
  \/ AcceptNotice("returns")
  \/ CancelNotice
  \/ PollRead
  \/ PollApply
  \/ StalePoll

SpecStale == InitStale /\ [][NextStale]_vars

\* ------------------------------------------------------------------------
\* The load effect for every role, on pods with and without a full record
\* ------------------------------------------------------------------------

\* Role
Roles ==
  {"patient", "doctor", "emergency", "pharmacy", "nurse", "governance", "unknown"}

\* emptyFullRecord: every field the empty text
emptyFullRecord == [patientName |-> ""]

\* what a safeLoadFullRecord call comes to: the pod after it, the requests
\* it made, and the data and status it returns unless it threw
LoadResult(threw, store, requests, data, status) ==
  [ threw |-> threw, store |-> store, requests |-> requests, data |-> data,
    status |-> status ]

\* a variant of safeLoadFullRecord that writes the default record on every
\* 404 (loadFullRecord called with its default autoCreateOn404)
safeLoadFullRecordAlwaysCreate(store, url, allowCreateIfMissing, res, put) ==
  IF res.status = NetworkError
    THEN LoadResult(TRUE, store, <<"GET">>, Null, NoStatus)
  ELSE IF res.status = 403
    THEN LoadResult(FALSE, store, <<"GET">>, Null, 403)
  ELSE IF res.status = 404 THEN
    IF IsOk(put)
      THEN LoadResult(FALSE, Put(store, url, emptyFullRecord), <<"GET", "PUT">>,
                      emptyFullRecord, 200)
      ELSE LoadResult(TRUE, store, <<"GET", "PUT">>, Null, NoStatus)
  ELSE IF ~IsOk(res.status)
    THEN LoadResult(TRUE, store, <<"GET">>, Null, NoStatus)
  ELSE LoadResult(FALSE, store, <<"GET">>, res.body, res.status)

\* safeLoadFullRecord on the answer res to its GET and the status put the
\* server gives the PUT of saveFullRecord, if one is made
safeLoadFullRecord(store, url, allowCreateIfMissing, res, put) ==
  IF res.status = NetworkError
    THEN LoadResult(TRUE, store, <<"GET">>, Null, NoStatus)
  ELSE IF res.status = 403
    THEN LoadResult(FALSE, store, <<"GET">>, Null, 403)
  ELSE IF res.status = 404 THEN
    IF ~allowCreateIfMissing
      THEN LoadResult(FALSE, store, <<"GET">>, Null, 404)
    ELSE IF IsOk(put)
      THEN LoadResult(FALSE, Put(store, url, emptyFullRecord), <<"GET", "PUT">>,
                      emptyFullRecord, 200)
      ELSE LoadResult(TRUE, store, <<"GET", "PUT">>, Null, NoStatus)
  ELSE IF ~IsOk(res.status)
    THEN LoadResult(TRUE, store, <<"GET">>, Null, NoStatus)
  ELSE LoadResult(FALSE, store, <<"GET">>, res.body, res.status)

\* the load effect in the browser of a user of role, from the record step
\* on (for the doctor, once gateOrThrow has returned), p the patient it
\* resolves: none for governance, the patient's own pod for a patient, the
\* selected one else.  The requests for the pod are entered in the history with what the
\* record step came to; get is the status of the GET of the record.
RoleLoad(role, p, put) ==
  /\ IF role = "governance" THEN
       /\ lastOp' = [ op |-> "load", patient |-> NoText, result |-> "returns",
                      grantId |-> NoId, grantUrl |-> NoUrl, role |-> role,
                      requests |-> << >>, get |-> NoStatus, data |-> Null,
                      status |-> NoStatus ]
       /\ UNCHANGED podStore
     ELSE
       \E res \in GetResponses(podStore, RecordUrl(p)) :
         LET r == safeLoadFullRecord(podStore, RecordUrl(p), role = "patient",
                                     res, put)
             rec == [i \in 1..Len(r.requests) |-> <<r.requests[i], RecordUrl(p)>>]
             more == IF app = "hooks" /\ r.threw THEN << >>
                     ELSE <<(<<"GET", FilesUrl(p)>>)>>
         IN /\ podStore' = r.store
            /\ lastOp' = [ op |-> "load", patient |-> p,
                           result |-> IF r.threw THEN "throws" ELSE "returns",
                           grantId |-> NoId, grantUrl |-> NoUrl, role |-> role,
                           requests |-> rec \o more, get |-> res.status,
                           data |-> r.data, status |-> r.status ]
  /\ UNCHANGED <<envVars, callVars, bootVars, govVars, acrStore, toggles, loggedIn,
                 selectedPatient, gateVars, dataVars, loadVars, pollVars,
                 lastGate, gatePassed, ungatedReads, lastAccess>>

\* pods in which the patients of have a full record and a file list
PodsOf(have) ==
  [ u \in {RecordUrl(q) : q \in have} \cup {FilesUrl(q) : q \in have} |->
      IF u[2] = "health/full-record.json" THEN [patientName |-> u[1]] ELSE << >> ]

InitRole ==
  /\ serverFaults = FailStatuses
  /\ lateAnswers = FALSE
  /\ app \in {"inline", "hooks"}
  /\ acpImpl = "acr"
  /\ grantStore = Put(Empty, TripleUrl("patient1"), GateGrant)
  /\ ackStore = Put(Empty, GateGrant.activeGrantUrl, GateAcks["doctor"])
  /\ termsStore = Put(Empty, termsUrl, TERMS_TEXT)
  /\ auditStore = AuditOf(GateEvents("active", "doctor"))
  /\ govContainers = {GovContainers[i] : i \in 1..Len(GovContainers)}
  /\ govAcrStore = putAcrs(1, Empty, 0, 0).store
  /\ racers = NoRacers
  /\ nextGrantId = 2
  /\ nextEventId = 3
  /\ nextFileId = 1
  /\ \E have \in SUBSET PATIENTS : podStore = PodsOf(have)
  /\ acrStore = Empty
  /\ InitBrowsers
  /\ InitHistory

NextRole ==
  \/ \E role \in Roles, p \in PATIENTS :
       \E put \in {201} \cup (IF role = "patient" THEN serverFaults ELSE {}) :
         RoleLoad(role, p, put)

SpecRole == InitRole /\ [][NextRole]_vars

\* ------------------------------------------------------------------------
\* applyAcpForResource on every combination of the role flags, read back by
\* readAccessForFullRecord; every request is answered from the stores
\* ------------------------------------------------------------------------

InitBuild ==
  /\ serverFaults = {}
  /\ lateAnswers = FALSE
  /\ app = "hooks"
  /\ acpImpl \in {"acr", "probe"}
  /\ InitGovernance
  /\ InitPods
  /\ InitBrowsers
  /\ InitHistory

NextBuild ==
  \/ \E d \in BOOLEAN, e \in BOOLEAN, ph \in BOOLEAN, n \in BOOLEAN,
        restrict \in BOOLEAN :
       ApplyAcp("patient1", d, e, ph, n, restrict, TRUE)
  \/ \E p \in PATIENTS : ReadAccess(p)

SpecBuild == InitBuild /\ [][NextBuild]_vars

\* ------------------------------------------------------------------------
\* deletePatientFile on every files resource of up to MaxListed entries
\* ------------------------------------------------------------------------

\* the lists of n entries with ids among 1..MaxListed, no id twice
Listed(n) ==
  {l \in [1..n -> 1..MaxListed] : \A i \in 1..n, j \in 1..n : l[i] = l[j] => i = j}

\* the files resource of patient1 holds any such list; patient2 has none
InitDelete ==
  /\ serverFaults = {}
  /\ lateAnswers = FALSE
  /\ app = "hooks"
  /\ acpImpl = "acr"
  /\ InitGovernance
  /\ \E n \in 0..MaxListed : \E l \in Listed(n) :
       podStore = Put(Put(Empty, RecordUrl("patient1"), [patientName |-> "patient1"]),
                      FilesUrl("patient1"), l)
  /\ acrStore = Empty
  /\ InitBrowsers
  /\ InitHistory

\* any id is deleted, also one that no entry has
NextDelete ==
  \E p \in PATIENTS, fileId \in 1..(MaxListed + 1) : DeleteFile(p, fileId)

SpecDelete == InitDelete /\ [][NextDelete]_vars

\* ------------------------------------------------------------------------
\* The doctor adds, edits and deletes file entries of patient1 while another
\* browser deletes entries of the same files resource
\* ------------------------------------------------------------------------

\* the grant of patient1 is acknowledged; the files resource holds entries
\* that were added before (the next id to be given out is not among them)
InitEdit ==
  /\ serverFaults = {}
  /\ lateAnswers = FALSE
  /\ app \in {"inline", "hooks"}
  /\ acpImpl = "acr"
  /\ grantStore = Put(Empty, TripleUrl("patient1"), GateGrant)
  /\ ackStore = Put(Empty, GateGrant.activeGrantUrl, GateAcks["doctor"])
  /\ termsStore = Put(Empty, termsUrl, TERMS_TEXT)
  /\ auditStore = AuditOf(GateEvents("active", "doctor"))
  /\ govContainers = {GovContainers[i] : i \in 1..Len(GovContainers)}
  /\ govAcrStore = putAcrs(1, Empty, 0, 0).store
  /\ racers = NoRacers
  /\ nextGrantId = 2
  /\ nextEventId = 3
  /\ nextFileId = 1
  /\ \E n \in 0..MaxListed : \E l \in Listed(n) :
       /\ \A i \in 1..n : l[i] # nextFileId
       /\ podStore = Put(Put(Empty, RecordUrl("patient1"), [patientName |-> "patient1"]),
                         FilesUrl("patient1"), l)
  /\ acrStore = Empty
  /\ InitBrowsers
  /\ InitHistory

NextEdit ==
  \/ Login
  \/ \E t \in Threads : GateState(t)
  \/ \E t \in Threads : GateAck(t)
  \/ \E t \in Threads : LoadRecord(t)
  \/ \E t \in Threads : LoadFiles(t)
  \/ FileAdd("returns")
  \/ FileEdit("returns")
  \/ \E f \in 1..MaxListed : FileDelete(f, "returns")
  \/ \E f \in 1..MaxListed : DeleteFile("patient1", f)

SpecEdit == InitEdit /\ [][NextEdit]_vars

\* ------------------------------------------------------------------------
\* The revocation poller while patient1 revokes and grants again and reads
\* of the governance pod may be refused
\* ------------------------------------------------------------------------

\* the grant of patient1 is acknowledged
InitRegrant ==
  /\ serverFaults = FailStatuses
  /\ lateAnswers = FALSE
  /\ app \in {"inline", "hooks"}
  /\ acpImpl = "acr"
  /\ grantStore = Put(Empty, TripleUrl("patient1"), GateGrant)
  /\ ackStore = Put(Empty, GateGrant.activeGrantUrl, GateAcks["doctor"])
  /\ termsStore = Put(Empty, termsUrl, TERMS_TEXT)
  /\ auditStore = AuditOf(GateEvents("active", "doctor"))
  /\ govContainers = {GovContainers[i] : i \in 1..Len(GovContainers)}
  /\ govAcrStore = putAcrs(1, Empty, 0, 0).store
  /\ racers = NoRacers
  /\ nextGrantId = 2
  /\ nextEventId = 3
  /\ nextFileId = 1
  /\ InitPods
  /\ InitBrowsers
  /\ InitHistory

NextRegrant ==
  \/ Login
  \/ \E t \in Threads : GateState(t)
  \/ \E t \in Threads : GateAck(t)
  \/ \E t \in Threads : GateTerms(t)
  \/ \E t \in Threads : LoadRecord(t)
  \/ \E t \in Threads : LoadFiles(t)
  \/ \E doc \in BOOLEAN : PatientApply("patient1", doc, FALSE, TRUE, "returns")
  \/ PollRead
  \/ PollApply

SpecRegrant == InitRegrant /\ [][NextRegrant]_vars

\* ------------------------------------------------------------------------
\* Any identity logs in, selects a patient and applies access control where
\* the shell offers it
\* ------------------------------------------------------------------------

\* the identities that can log in: those of the configuration and one the
\* configuration does not know
Identities ==
  PATIENTS \cup {DOCTOR_WEBID, EMERGENCY_WEBID, PHARMACY_WEBID, NURSE_WEBID,
                 GOVERNANCE_WEBID, "stranger"}

NextOwner ==
  \/ \E id \in Identities : ContextLogin(id)
  \/ ContextLogout
  \/ \E p \in PATIENTS : ContextSelect(p)
  \/ \E doc \in BOOLEAN, acrOk \in BOOLEAN : ApplyAccess(doc, FALSE, acrOk, "returns")

SpecOwner == Init /\ [][NextOwner]_vars

\* ------------------------------------------------------------------------
\* The grant protocol while writes to the governance pod may be refused
\* ------------------------------------------------------------------------

InitRefused ==
  /\ serverFaults = FailStatuses
  /\ lateAnswers = FALSE
  /\ app = "hooks"
  /\ acpImpl = "acr"
  /\ InitGovernance
  /\ InitPods
  /\ InitBrowsers
  /\ InitHistory

NextRefused ==
  \/ \E doc \in BOOLEAN, acrOk \in BOOLEAN,
        o \in {"stateGetFails", "statePutFails", "auditPutFails", "returns"} :
       PatientApply("patient1", doc, FALSE, acrOk, o)
  \/ Login
  \/ \E t \in Threads : GateState(t)
  \/ \E t \in Threads : GateAck(t)
  \/ \E t \in Threads : GateTerms(t)
  \/ \E o \in {"ackPutFails", "auditPutFails", "returns"} : AcceptNotice(o)

SpecRefused == InitRefused /\ [][NextRefused]_vars

\* the apply action of patient1 alone, every request answered or refused
NextApply ==
  \E doc \in BOOLEAN, em \in BOOLEAN, acrOk \in BOOLEAN,
     o \in {"stateGetFails", "statePutFails", "auditPutFails", "returns"} :
    PatientApply("patient1", doc, em, acrOk, o)

SpecApply == InitRefused /\ [][NextApply]_vars

\* ------------------------------------------------------------------------
\* Two browsers add to or delete from the files resource of patient1 at once
\* ------------------------------------------------------------------------

\* the files resource holds entries that were added before; no request is
\* refused
InitWriters ==
  /\ serverFaults = {}
  /\ lateAnswers = FALSE
  /\ app = "hooks"
  /\ acpImpl = "acr"
  /\ grantStore = Empty
  /\ ackStore = Empty
  /\ termsStore = Put(Empty, termsUrl, TERMS_TEXT)
  /\ govContainers = {GovContainers[i] : i \in 1..Len(GovContainers)}
  /\ govAcrStore = putAcrs(1, Empty, 0, 0).store
  /\ racers = NoRacers
  /\ auditStore = writeAudit(Empty, 0, 0, BootstrapEvent)
  /\ nextGrantId = 1
  /\ nextEventId = 1
  /\ nextFileId = MaxListed + 1
  /\ \E n \in 0..MaxListed : \E l \in Listed(n) :
       podStore = Put(Put(Empty, RecordUrl("patient1"), [patientName |-> "patient1"]),
                      FilesUrl("patient1"), l)
  /\ acrStore = Empty
  /\ InitBrowsers
  /\ InitHistory

NextWriters ==
  \/ \E w \in Editors, op \in {"add", "delete"}, f \in 1..(MaxListed + 2) :
       WriteRead(w, "patient1", op, f)
  \/ \E w \in Editors : WritePut(w, 200)

SpecWriters == InitWriters /\ [][NextWriters]_vars

\* ------------------------------------------------------------------------
\* The audit trail listed while requests fail: the container is missing or
\* holds the bootstrap event, events are appended, and the listing and each
\* member read is answered in any way
\* ------------------------------------------------------------------------

InitListing ==
  /\ serverFaults = AllFaults
  /\ lateAnswers = FALSE
  /\ app = "hooks"
  /\ acpImpl = "acr"
  /\ grantStore = Empty
  /\ ackStore = Empty
  /\ termsStore = Empty
  /\ \E booted \in BOOLEAN :
       /\ govContainers = IF booted THEN {GovContainers[i] : i \in 1..Len(GovContainers)}
                          ELSE {}
       /\ govAcrStore = IF booted THEN putAcrs(1, Empty, 0, 0).store ELSE Empty
       /\ auditStore = IF booted THEN writeAudit(Empty, 0, 0, BootstrapEvent) ELSE Empty
       /\ nextEventId = IF booted THEN 1 ELSE MaxAppended + 1
  /\ racers = NoRacers
  /\ nextGrantId = 1
  /\ nextFileId = 1
  /\ InitPods
  /\ InitBrowsers
  /\ InitHistory

NextListing ==
  \/ \E at \in 0..MaxClock : AppendEvent(at, GrantEvent(GateGrant), TRUE)
  \/ \E limit \in {1, DefaultLimit} : ListAnswered(limit)

SpecListing == InitListing /\ [][NextListing]_vars

\* ------------------------------------------------------------------------
\* listAuditEvents on an audit-events container of up to MaxMembers members
\* ------------------------------------------------------------------------

NextFetches ==
  \/ \E n \in 0..MaxMembers : FetchList(n)
  \/ ChunkStart
  \/ \E u \in 1..MaxMembers : FetchSettles(u)
  \/ ChunkDone
  \/ FetchReturn

SpecFetches == Init /\ [][NextFetches]_vars

\* ------------------------------------------------------------------------
\* The audit trail: events appended at any reading of the clock, then listed
\* ------------------------------------------------------------------------

\* a bootstrapped governance pod; a read of an event may be refused
InitAudit ==
  /\ serverFaults = FailStatuses
  /\ lateAnswers = FALSE
  /\ app = "inline"
  /\ acpImpl = "acr"
  /\ InitGovernance
  /\ InitPods
  /\ InitBrowsers
  /\ InitHistory

NextAudit ==
  \/ \E at \in 0..MaxClock, ok \in BOOLEAN :
       AppendEvent(at, GrantEvent(GateGrant), ok)
  \/ \E limit \in (0..(MaxAppended + 1)) \cup {DefaultLimit} : ListEvents(limit)

SpecAudit == InitAudit /\ [][NextAudit]_vars

\* ------------------------------------------------------------------------
\* bootstrapGovernanceStore on a governance pod that starts empty; a request
\* may be answered with 403 or 500, which leaves the pod partly set up
\* ------------------------------------------------------------------------

InitBootstrap ==
  /\ serverFaults = FailStatuses
  /\ lateAnswers = FALSE
  /\ app = "hooks"
  /\ acpImpl = "acr"
  /\ grantStore = Empty
  /\ ackStore = Empty
  /\ termsStore = Empty
  /\ govContainers = {}
  /\ govAcrStore = Empty
  /\ racers = NoRacers
  /\ auditStore = Empty
  /\ nextGrantId = 1
  /\ nextEventId = 0
  /\ nextFileId = 1
  /\ InitPods
  /\ InitBrowsers
  /\ InitHistory

\* failAt = 0: no request of the call is answered with a fault
NextBootstrap ==
  \E failAt \in 0..BootRequests, st \in serverFaults : Bootstrap(failAt, st)

SpecBootstrap == InitBootstrap /\ [][NextBootstrap]_vars

\* ------------------------------------------------------------------------
\* Two bootstrap calls at once on a governance pod that is empty or holds
\* some of the containers; no request is refused
\* ------------------------------------------------------------------------

InitRace ==
  /\ serverFaults = {}
  /\ lateAnswers = FALSE
  /\ app = "hooks"
  /\ acpImpl = "acr"
  /\ grantStore = Empty
  /\ ackStore = Empty
  /\ termsStore = Empty
  /\ \E n \in 0..Len(GovContainers) : govContainers = {GovContainers[i] : i \in 1..n}
  /\ govAcrStore = Empty
  /\ racers = [c \in Racers |-> [i |-> 1, step |-> "get"]]
  /\ auditStore = Empty
  /\ nextGrantId = 1
  /\ nextEventId = 0
  /\ nextFileId = 1
  /\ InitPods
  /\ InitBrowsers
  /\ InitHistory

NextRace ==
  \/ \E c \in Racers : RaceGet(c)
  \/ \E c \in Racers, answer \in ExistsAnswers : RacePut(c, answer)
  \/ \E c \in Racers : RaceRest(c)

SpecRace == InitRace /\ [][NextRace]_vars

\* ------------------------------------------------------------------------
\* Properties
\* ------------------------------------------------------------------------

\* a gateOrThrow call has finished
GateFinished == lastGate.outcome # "none"

\* the finished call read a record that is active and has an
\* acknowledgement location
GateReadActive ==
  /\ GateFinished
  /\ lastGate.st.status = 200
  /\ lastGate.st.body.status = "active"
  /\ lastGate.st.body.activeGrantUrl # NoUrl

\* the grant state of patient p is stored with status revoked
Revoked(p) ==
  /\ TripleUrl(p) \in DOMAIN grantStore
  /\ grantStore[TripleUrl(p)].status = "revoked"

\* the doctor's acknowledgement is stored at url
DoctorAckAt(url) ==
  /\ url \in DOMAIN ackStore
  /\ ackStore[url] # Malformed
  /\ ackStore[url].acknowledgedBy = DOCTOR_WEBID

\* the GRANT events of the audit trail that belong to a grant
GrantEvents ==
  {auditStore[u] : u \in {v \in DOMAIN auditStore :
                            /\ auditStore[v].type = "GRANT"
                            /\ auditStore[v].grantId # NoId}}

\* C1: a gateOrThrow call whose read of the grant state is answered with no
\* record (404), with a record whose status is not active, or with a record
\* that has no acknowledgement location, ends with NoActiveGrant and has read
\* neither the acknowledgement nor the terms; a sequence is past the state
\* check only with an active record that has a location.
C1_GateNeedsActiveGrant ==
  /\ (/\ GateFinished
      /\ \/ lastGate.st.status = 404
         \/ /\ lastGate.st.status = 200
            /\ \/ lastGate.st.body.status # "active"
               \/ lastGate.st.body.activeGrantUrl = NoUrl)
     => /\ lastGate.outcome = "NoActiveGrant"
        /\ lastGate.ack = NotRead
        /\ lastGate.terms = NotRead
  /\ \A t \in Threads :
       pc[t] = "gateAck" =>
         /\ loadSt[t].status = "active"
         /\ loadSt[t].activeGrantUrl # NoUrl

\* a call met a revoked grant that the doctor had acknowledged and ended
\* with NoActiveGrant
C1_Witness ==
  /\ lastGate.outcome = "NoActiveGrant"
  /\ lastGate.st.status = 200
  /\ lastGate.st.body.status = "revoked"
  /\ DoctorAckAt(GateGrant.activeGrantUrl)

\* C2: once createGrantAndActivate has returned for a triple and no
\* governance operation ran since, getActiveGrantState returns a record with
\* status active, the grant id the call drew (the id of no other grant), the
\* acknowledgement location acks/<key>-<grantId>.json, and the terms version
\* and terms hash of the build.
C2_CreateThenActive ==
  (lastOp.op = "createGrantAndActivate" /\ lastOp.result = "returned") =>
    LET p   == lastOp.patient
        key == makeKey(p, DOCTOR_WEBID, HealthContainerUrl(p))
    IN
    /\ \A resp \in GetResponses(grantStore, stateUrlForKey(key)) :
         LET st == getActiveGrantState(resp) IN
         /\ ~st.threw
         /\ st.value # Null
         /\ st.value.status = "active"
         /\ st.value.grantId = lastOp.grantId
         /\ st.value.activeGrantUrl = <<"grants/acks/", key, lastOp.grantId>>
         /\ st.value.termsVersion = TERMS_VERSION
         /\ st.value.termsHash = sha256Hex(<<TERMS_VERSION, TERMS_TEXT>>)
    /\ Cardinality({e \in GrantEvents : e.grantId = lastOp.grantId}) = 1

\* the second grant of a behaviour has just been created
C2_Witness ==
  /\ lastOp.op = "createGrantAndActivate"
  /\ lastOp.result = "returned"
  /\ lastOp.grantId = 2

\* C3: the step in which the doctor accepts the notice writes the doctor's
\* acknowledgement at the pending grant's recorded location, closes the
\* notice and starts the load sequence again; and a gateOrThrow call that
\* reads the acknowledgement while the doctor's acknowledgement is stored at
\* the location its grant records returns normally and leaves the notice as
\* it is.
C3_AcceptThenPass ==
  [][ /\ noticeAcceptedTick' = noticeAcceptedTick + 1 =>
           /\ pendingGrant # Null
           /\ pendingGrant.activeGrantUrl \in DOMAIN ackStore'
           /\ ackStore'[pendingGrant.activeGrantUrl].acknowledgedBy = DOCTOR_WEBID
           /\ ~showLegalNotice'
           /\ pc'["rec"] = "gateState"
      /\ \A t \in Threads :
           (/\ pc[t] = "gateAck"
            /\ pc'[t] \notin {"gateAck", "gateState", "idle"}
            /\ DoctorAckAt(loadSt[t].activeGrantUrl))
           => /\ pc'[t] \in {"record", "files"}
              /\ lastGate'.outcome = "passed"
              /\ lastGate'.terms = NotRead
              /\ showLegalNotice' = showLegalNotice
    ]_vars

\* after an accepted notice the gate has passed and the record is loaded
C3_Witness ==
  /\ noticeAcceptedTick > 0
  /\ lastGate.outcome = "passed"
  /\ DoctorAckAt(lastGate.st.body.activeGrantUrl)
  /\ ~showLegalNotice
  /\ fullRecord # Null

\* C4: a revokeActiveGrant that returns leaves the state of its triple with
\* status revoked; a gateOrThrow call that reads the state while it is
\* revoked ends with NoActiveGrant, acknowledged or not; and a state with
\* status active is written only by a createGrantAndActivate that returns,
\* for its own triple and with the grant id it drew.
C4_RevokedUntilRegrant ==
  [][ /\ (/\ lastOp' # lastOp
          /\ lastOp'.op = "revokeActiveGrant"
          /\ lastOp'.result = "returned"
          /\ lastOp'.grantId # NoId)
         => /\ TripleUrl(lastOp'.patient) \in DOMAIN grantStore'
            /\ grantStore'[TripleUrl(lastOp'.patient)].status = "revoked"
      /\ \A t \in Threads :
           (/\ pc[t] = "gateState"
            /\ pc'[t] \notin {"gateState", "idle"}
            /\ Revoked(selectedPatient))
           => /\ pc'[t] = "done"
              /\ lastGate'.outcome = "NoActiveGrant"
              /\ lastGate'.ack = NotRead
      /\ \A p \in PATIENTS :
           (/\ TripleUrl(p) \in DOMAIN grantStore'
            /\ grantStore'[TripleUrl(p)].status = "active"
            /\ \/ TripleUrl(p) \notin DOMAIN grantStore
               \/ grantStore[TripleUrl(p)] # grantStore'[TripleUrl(p)])
           => /\ lastOp'.op = "createGrantAndActivate"
              /\ lastOp'.result = "returned"
              /\ lastOp'.patient = p
              /\ lastOp'.grantId = nextGrantId
              /\ grantStore'[TripleUrl(p)].grantId = nextGrantId
              /\ nextGrantId' = nextGrantId + 1
    ]_vars

\* a call met the revoked grant although the doctor's acknowledgement of
\* that grant is stored
C4_Witness ==
  /\ lastGate.outcome = "NoActiveGrant"
  /\ lastGate.st.status = 200
  /\ lastGate.st.body.status = "revoked"
  /\ DoctorAckAt(lastGate.st.body.activeGrantUrl)
  /\ Revoked(selectedPatient)

\* C5: two grants of one triple differ in their grant id and in their
\* acknowledgement location; and a gateOrThrow call for an active grant with
\* nothing stored at that grant's own location ends with LegalNoticeRequired,
\* whatever is stored at the location of an earlier grant.
C5_RegrantNeedsNewAck ==
  /\ \A e1 \in GrantEvents, e2 \in GrantEvents :
       (/\ e1.eventId # e2.eventId
        /\ e1.patientWebId = e2.patientWebId
        /\ e1.doctorWebId = e2.doctorWebId
        /\ e1.scopeUrl = e2.scopeUrl)
       => /\ e1.grantId # e2.grantId
          /\ e1.ackUrl # e2.ackUrl
  /\ (/\ GateReadActive
      /\ lastGate.st.body.activeGrantUrl \notin DOMAIN ackStore)
     => lastGate.outcome = "LegalNoticeRequired"

\* the second grant of the triple is active, the doctor's acknowledgement of
\* the first one is stored, and the call for the second one ended with
\* LegalNoticeRequired
C5_Witness ==
  /\ GateReadActive
  /\ lastGate.outcome = "LegalNoticeRequired"
  /\ lastGate.st.body.grantId = 2
  /\ \E e \in GrantEvents :
       /\ e.patientWebId = lastGate.st.body.patientWebId
       /\ e.grantId = 1
       /\ e.ackUrl # lastGate.st.body.activeGrantUrl
       /\ DoctorAckAt(e.ackUrl)
  /\ grantStore[TripleUrl(lastGate.patient)] = lastGate.st.body

\* C6: the doctor's browser issues no read of a patient's full record or
\* files resource unless a gateOrThrow call for that patient has returned
\* normally before.
C6_ReadsAreGated == ungatedReads = {}

\* C7: a gateOrThrow call that read an active grant and whose read of the
\* acknowledgement is answered 404, with another status outside 2xx, or with
\* an acknowledgement that names somebody else, ends with LegalNoticeRequired
\* after reading the terms at the location the state records, with the grant
\* as the pending grant and a notice text that is not empty.
C7_UnacknowledgedGetsNotice ==
  (/\ GateReadActive
   /\ lastGate.ack.status \notin {NoStatus, NetworkError}
   /\ \/ ~IsOk(lastGate.ack.status)
      \/ /\ lastGate.ack.body # Malformed
         /\ lastGate.ack.body.acknowledgedBy # DOCTOR_WEBID)
  => /\ lastGate.outcome = "LegalNoticeRequired"
     /\ lastGate.terms # NotRead
     /\ IsOk(lastGate.terms.status) =>
          /\ lastGate.st.body.termsUrl \in DOMAIN termsStore
          /\ legalNoticeText = termsStore[lastGate.st.body.termsUrl]
     /\ legalNoticeText # ""
     /\ pendingGrant = lastGate.st.body
     /\ showLegalNotice

\* a call read an acknowledgement that names somebody else and put up the
\* notice
C7_Witness ==
  /\ GateReadActive
  /\ lastGate.outcome = "LegalNoticeRequired"
  /\ lastGate.ack.status = 200
  /\ lastGate.ack.body # Malformed
  /\ lastGate.ack.body.acknowledgedBy = EMERGENCY_WEBID
  /\ legalNoticeText = TERMS_TEXT

\* C8: hasDoctorAcknowledged is true for a 2xx answer whose body does not
\* parse, and a gateOrThrow call that read an active grant and got such an
\* answer returns normally without reading the terms.
C8_MalformedAckPasses ==
  /\ hasDoctorAcknowledged(Answer(Malformed), DOCTOR_WEBID)
       = [threw |-> FALSE, value |-> TRUE]
  /\ (/\ GateReadActive
      /\ lastGate.ack.status = 200
      /\ lastGate.ack.body = Malformed)
     => /\ lastGate.outcome = "passed"
        /\ lastGate.terms = NotRead
        /\ lastGate.patient \in gatePassed

\* a call passed on an acknowledgement that does not parse, and the record
\* was loaded
C8_Witness ==
  /\ GateReadActive
  /\ lastGate.outcome = "passed"
  /\ lastGate.ack.status = 200
  /\ lastGate.ack.body = Malformed
  /\ fullRecord # Null

\* C9: when the grant of the selected patient is revoked while the doctor's
\* browser holds that patient's record, the record is cleared (or the grant
\* is active again).
C9_RevocationClearsData ==
  (loggedIn /\ fullRecord # Null /\ Revoked(selectedPatient))
    ~> (fullRecord = Null \/ ~Revoked(selectedPatient))

\* C10: a readAccessForFullRecord call for a patient whose access-control
\* document is absent, or whose read of it is not answered 2xx, returns false
\* for the doctor and false for the emergency identity.
C10_FailClosed ==
  (lastAccess.patient # NoText /\ ~IsOk(lastAccess.acrStatus)) =>
    /\ ~lastAccess.result.doctorCanReadWrite
    /\ ~lastAccess.result.emergencyCanRead

\* the operation that finished last is an applyAcpForResource that returned
Applied == lastOp.op = "applyAcpForResource" /\ lastOp.result = "returned"

\* C11: after applyAcpForResource has written the document built from any
\* combination of the flags, readAccessForFullRecord of acp.ts on the answer
\* to the GET of that document returns the doctor flag and the emergency flag
\* the document was built with; and a document built with the doctor flag
\* set and the emergency flag clear contains the identifier of the doctor
\* block and not that of the emergency block.
C11_AcrRoundTrip ==
  Applied =>
    LET opts == lastOp.options
        url  == AcrUrl(lastOp.patient)
    IN
    /\ url \in DOMAIN acrStore
    /\ acpImpl = "acr" =>
         \A resp \in GetResponses(acrStore, url) :
           readAccessFromAcr(resp) =
             AccessResult(FALSE, opts.doctorCanReadWrite, opts.emergencyCanRead)
    /\ (opts.doctorCanReadWrite /\ ~opts.emergencyCanRead) =>
         /\ Includes(acrStore[url], "<#doctorAccessControl>")
         /\ ~Includes(acrStore[url], "<#emergencyAccessControl>")

\* a document built for the doctor, the pharmacy and the nurse but not for
\* the emergency identity was written and read back
C11_Witness ==
  /\ Applied
  /\ acpImpl = "acr"
  /\ lastOp.options.doctorCanReadWrite
  /\ ~lastOp.options.emergencyCanRead
  /\ lastOp.options.pharmacyCanRead
  /\ lastOp.options.nurseCanReadWrite
  /\ lastAccess.patient = lastOp.patient
  /\ lastAccess.acrStatus = 200
  /\ lastAccess.result.doctorCanReadWrite
  /\ ~lastAccess.result.emergencyCanRead
  /\ toggles = [doctorCanReadWrite |-> TRUE, emergencyCanRead |-> FALSE]

\* the operation that finished last is a deletePatientFile that returned
Deleted == lastOp.op = "deletePatientFile" /\ lastOp.result = "returned"

\* C12: after deletePatientFile of id X has returned, reading the files
\* resource back gives a list that has no entry with id X, has every other
\* entry of the list that was there before, once, and in the order they had;
\* when no entry had the id X the list read back is the list that was there.
C12_DeleteThenRead ==
  Deleted =>
    LET X      == lastOp.fileId
        before == lastOp.before
    IN
    \A resp \in GetResponses(podStore, FilesUrl(lastOp.patient)) :
      LET r == loadPatientFiles(resp) IN
      /\ ~r.threw
      /\ resp.status = 200
      /\ \A i \in 1..Len(r.value) : r.value[i] # X
      /\ \A k \in 1..Len(before) :
           before[k] # X =>
             Cardinality({i \in 1..Len(r.value) : r.value[i] = before[k]}) = 1
      /\ Len(r.value) = Cardinality({k \in 1..Len(before) : before[k] # X})
      /\ \A i \in 1..Len(r.value), j \in 1..Len(r.value) :
           i < j =>
             \E k \in 1..Len(before), l \in 1..Len(before) :
               k < l /\ before[k] = r.value[i] /\ before[l] = r.value[j]
      /\ (\A k \in 1..Len(before) : before[k] # X) => r.value = before

\* the middle entry of a list of three was deleted and the two others are
\* read back in their order
C12_Witness ==
  /\ Deleted
  /\ Len(lastOp.before) = 3
  /\ lastOp.before[2] = lastOp.fileId
  /\ podStore[FilesUrl(lastOp.patient)] = <<lastOp.before[1], lastOp.before[3]>>

\* the operation that finished last is a listAuditEvents that returned
Listed13 == lastOp.op = "listAuditEvents" /\ lastOp.result = "returned"

\* C13: a listAuditEvents call with a limit returns at most limit events,
\* each a readable member of the audit-events container and none twice, in
\* descending order of their timestamps, as many as the limit allows, and no
\* readable member it leaves out is more recent than one it returns.
C13_ListMostRecent ==
  Listed13 =>
    LET res      == lastOp.events
        readable == lastOp.readable
        returned == {res[i].eventId : i \in 1..Len(res)}
    IN
    /\ Len(res) <= lastOp.limit
    /\ \A i \in 1..Len(res) :
         /\ auditUrl(res[i].eventId) \in readable
         /\ auditStore[auditUrl(res[i].eventId)] = res[i]
    /\ Cardinality(returned) = Len(res)
    /\ \A i \in 1..Len(res), j \in 1..Len(res) : i < j => res[i].at >= res[j].at
    /\ Len(res) = IF lastOp.limit < Cardinality(readable) THEN lastOp.limit
                  ELSE Cardinality(readable)
    /\ \A u \in readable :
         auditStore[u].eventId \notin returned =>
           \A i \in 1..Len(res) : res[i].at >= auditStore[u].at

\* C14: every stored audit event is stored at the location its event id
\* names and carries the hash of the sorted-key encoding of all its other
\* fields, the event id and the timestamp included (an optional field that is
\* missing is no part of the encoding); and a step changes no stored event
\* and adds at most one, under an event id no stored event has.
C14_AuditAppendAndHash ==
  /\ [](\A u \in DOMAIN auditStore :
          LET e == auditStore[u]
              encoding ==
                (IF e.ackUrl # NoUrl THEN << <<"ackUrl", e.ackUrl>> >> ELSE << >>)
                \o << <<"actorWebId", e.actorWebId>>,
                      <<"at", e.at>>,
                      <<"doctorWebId", e.doctorWebId>>,
                      <<"eventId", e.eventId>> >>
                \o (IF e.grantId # NoId THEN << <<"grantId", e.grantId>> >>
                    ELSE << >>)
                \o << <<"patientWebId", e.patientWebId>>,
                      <<"scopeUrl", e.scopeUrl>>,
                      <<"termsHash", e.termsHash>>,
                      <<"termsVersion", e.termsVersion>>,
                      <<"type", e.type>> >>
          IN /\ u = auditUrl(e.eventId)
             /\ e.eventHash = sha256Hex(encoding)
             /\ e.eventHash = sha256Hex(canonicalJson(
                                [k \in (DOMAIN e) \ {"eventHash"} |-> e[k]])))
  /\ [][ /\ \A u \in DOMAIN auditStore :
              u \in DOMAIN auditStore' /\ auditStore'[u] = auditStore[u]
         /\ Cardinality((DOMAIN auditStore') \ (DOMAIN auditStore)) <= 1
         /\ \A u \in (DOMAIN auditStore') \ (DOMAIN auditStore) :
              /\ \A v \in DOMAIN auditStore :
                   auditStore[v].eventId # auditStore'[u].eventId
              /\ auditStore'[u].at = nowIso
       ]_vars

\* the trail holds the events of a grant, of its acknowledgement (which has
\* no grant id) and of its revocation, next to the bootstrap event
C14_Witness ==
  /\ Cardinality(DOMAIN auditStore) = 4
  /\ \E u \in DOMAIN auditStore :
       auditStore[u].type = "NOTICE_ACK" /\ auditStore[u].grantId = NoId
  /\ \E u \in DOMAIN auditStore :
       auditStore[u].type = "REVOKE" /\ auditStore[u].grantId # NoId

\* C15: a bootstrapGovernanceStore call that follows one that returned, and
\* whose requests the server all answers from what it stores, returns as
\* well and leaves the containers, the access-control documents and the
\* terms document as the first call left them: all six containers, the five
\* documents, and one terms document with the terms text.
C15_BootstrapTwice ==
  [][ ( /\ lastOp.op = "bootstrapGovernanceStore"
        /\ lastOp.result = "returned"
        /\ lastOp' # lastOp
        /\ lastOp'.op = "bootstrapGovernanceStore"
        /\ lastOp'.failAt = 0 )
      => /\ lastOp'.result = "returned"
         /\ govContainers' = govContainers
         /\ govContainers' = {GovContainers[i] : i \in 1..Len(GovContainers)}
         /\ govAcrStore' = govAcrStore
         /\ DOMAIN govAcrStore' =
              {<<BootstrapAcrs[i][1], ".acr">> : i \in 1..Len(BootstrapAcrs)}
         /\ termsStore' = termsStore
         /\ DOMAIN termsStore' = {termsUrl}
         /\ termsStore'[termsUrl] = TERMS_TEXT
    ]_vars

\* a second call has returned after a first one: the trail holds the audit
\* events of both, the pod one terms document
C15_Witness ==
  /\ lastOp.op = "bootstrapGovernanceStore"
  /\ lastOp.result = "returned"
  /\ lastOp.eventId = 1
  /\ Cardinality(DOMAIN auditStore) = 2
  /\ DOMAIN termsStore = {termsUrl}

\* C16: no acknowledgeGrant call writes an acknowledgement resource that
\* exists already: for each grant the resource is written at most once.
C16_AckWrittenOnce ==
  (lastOp.op = "acknowledgeGrant" /\ lastOp.ackWritten) => ~lastOp.existed

\* the identities of the configuration
Agents ==
  {GOVERNANCE_WEBID, DOCTOR_WEBID, EMERGENCY_WEBID, PHARMACY_WEBID, NURSE_WEBID}
  \cup PATIENTS

\* what an access-control document gives an agent on the container: a mode
\* of an access control the root references whose matcher names the agent
Allows(url, agent, mode) ==
  LET doc == govAcrStore[<<url, ".acr">>] IN
  \E i \in 1..Len(doc), j \in 1..Len(doc) :
    /\ doc[i].a = "acp:AccessControlResource"
    /\ doc[j].a = "acp:AccessControl"
    /\ \E k \in 1..Len(doc[i].accessControl) : doc[i].accessControl[k] = doc[j].id
    /\ \E k \in 1..Len(doc[i].memberAccessControl) :
         doc[i].memberAccessControl[k] = doc[j].id
    /\ mode \in doc[j].allow
    /\ agent \in doc[j].matcher.agents

\* C17 as stated: the grant-state container is writable by patients only and
\* readable by patients and the doctor, the acknowledgement container
\* writable by the doctor only and readable by patients and the doctor, the
\* audit-events container writable by the doctor and every patient and
\* readable by the governance owner only.
C17_ActorsOnly ==
  /\ <<"grants/state/", ".acr">> \in DOMAIN govAcrStore =>
       \A a \in Agents :
         /\ Allows("grants/state/", a, aclWrite) <=> a \in PATIENTS
         /\ a \in PATIENTS \cup {DOCTOR_WEBID} => Allows("grants/state/", a, aclRead)
  /\ <<"grants/acks/", ".acr">> \in DOMAIN govAcrStore =>
       \A a \in Agents :
         /\ Allows("grants/acks/", a, aclWrite) <=> a = DOCTOR_WEBID
         /\ a \in PATIENTS \cup {DOCTOR_WEBID} => Allows("grants/acks/", a, aclRead)
  /\ <<"audit/events/", ".acr">> \in DOMAIN govAcrStore =>
       \A a \in Agents :
         /\ a \in PATIENTS \cup {DOCTOR_WEBID} => Allows("audit/events/", a, aclWrite)
         /\ Allows("audit/events/", a, aclRead) <=> a = GOVERNANCE_WEBID

\* C17, amended: the governance owner may read, write, append and control
\* in all three containers; of the other identities, exactly the patients
\* may write the grant-state container, exactly the doctor the
\* acknowledgement container, exactly the doctor and the patients the
\* audit-events container; exactly the patients and the doctor may read the
\* first two, and none of them the third.
C17_BootstrapPermissions ==
  \A url \in {"grants/state/", "grants/acks/", "audit/events/"} :
    <<url, ".acr">> \in DOMAIN govAcrStore =>
      LET writers == CASE url = "grants/state/" -> PATIENTS
                       [] url = "grants/acks/"  -> {DOCTOR_WEBID}
                       [] OTHER                 -> PATIENTS \cup {DOCTOR_WEBID}
          readers == IF url = "audit/events/" THEN {}
                     ELSE PATIENTS \cup {DOCTOR_WEBID}
      IN
      \A a \in Agents :
        IF a = GOVERNANCE_WEBID
          THEN \A mode \in {aclRead, aclWrite, aclAppend, aclControl} :
                 Allows(url, a, mode)
          ELSE /\ Allows(url, a, aclWrite) <=> a \in writers
               /\ Allows(url, a, aclAppend) <=> a \in writers
               /\ Allows(url, a, aclRead) <=> a \in readers
               /\ ~Allows(url, a, aclControl)

\* a bootstrap call has returned and the three documents are on the pod
C17_Witness ==
  /\ lastOp.op = "bootstrapGovernanceStore"
  /\ lastOp.result = "returned"
  /\ \A url \in {"grants/state/", "grants/acks/", "audit/events/"} :
       <<url, ".acr">> \in DOMAIN govAcrStore

\* C18: the document applyAcpForResource has stored holds exactly one block
\* that allows read, write, append and control to the patient; for each role
\* it holds a block for the role's identity exactly when the role's flag is
\* set, with read and write for the doctor and the nurse and read for the
\* emergency identity and the pharmacy; and every identifier a declaration
\* of the document references is the identifier of a block of the document.
C18_BlocksAndReferences ==
  (lastOp.op = "applyAcpForResource" /\ lastOp.result = "returned") =>
    LET opts   == lastOp.options
        doc    == acrStore[AcrUrl(lastOp.patient)]
        blocks == {i \in 1..Len(doc) : doc[i].a = "acp:AccessControl"}
        of(w)  == {i \in blocks : doc[i].matcher.agent = w}
        roles  == << <<opts.doctorWebId, opts.doctorCanReadWrite, {aclRead, aclWrite}>>,
                     <<opts.nurseWebId, opts.nurseCanReadWrite, {aclRead, aclWrite}>>,
                     <<opts.emergencyWebId, opts.emergencyCanRead, {aclRead}>>,
                     <<opts.pharmacyWebId, opts.pharmacyCanRead, {aclRead}>> >>
    IN
    /\ Cardinality(of(opts.patientWebId)) = 1
    /\ \A i \in of(opts.patientWebId) :
         doc[i].allow = {aclRead, aclWrite, aclAppend, aclControl}
    /\ \A r \in 1..Len(roles) :
         /\ Cardinality(of(roles[r][1])) = (IF roles[r][2] THEN 1 ELSE 0)
         /\ \A i \in of(roles[r][1]) : doc[i].allow = roles[r][3]
    /\ Cardinality(blocks) =
         1 + Cardinality({r \in 1..Len(roles) : roles[r][2]})
    /\ \A i \in 1..Len(doc) :
         doc[i].a = "acp:AccessControlResource" =>
           \A id \in Identifiers(doc[i]) \ {doc[i].id} :
             \E j \in blocks : doc[j].id = id

\* C19: an apply with doctorCanReadWrite set that returns has called
\* createGrantAndActivate: the state of the triple holds a grant id no grant
\* had before and an acknowledgement location where nothing is stored, also
\* when the triple had an active grant; and a gateOrThrow call for a patient
\* whose gate passed under an earlier, acknowledged grant, which reads the
\* grant issued since and not yet acknowledged, ends with LegalNoticeRequired.
C19_ReapplyIssuesNewGrant ==
  /\ [][ \A p \in PATIENTS :
           (\E em \in BOOLEAN : PatientApply(p, TRUE, em, TRUE, "returns")) =>
             /\ lastOp'.op = "createGrantAndActivate"
             /\ lastOp'.result = "returned"
             /\ \A u \in DOMAIN grantStore :
                  grantStore[u].grantId # lastOp'.grantId
             /\ \A u \in DOMAIN ackStore : u[3] # lastOp'.grantId
             /\ grantStore'[TripleUrl(p)].status = "active"
             /\ grantStore'[TripleUrl(p)].grantId = lastOp'.grantId
             /\ grantStore'[TripleUrl(p)].activeGrantUrl = lastOp'.grantUrl
             /\ lastOp'.grantUrl \notin DOMAIN ackStore'
             /\ TripleUrl(p) \in DOMAIN grantStore =>
                  grantStore[TripleUrl(p)].activeGrantUrl # lastOp'.grantUrl
       ]_vars
  /\ []( ( /\ GateFinished
           /\ lastGate.patient \in gatePassed
           /\ lastGate.st.status = 200
           /\ lastGate.st.body.status = "active"
           /\ lastGate.st.body.activeGrantUrl # NoUrl
           /\ lastGate.st.body.activeGrantUrl \notin DOMAIN ackStore
           /\ \E u \in DOMAIN ackStore :
                /\ u[2] = lastGate.st.body.key
                /\ u[3] < lastGate.st.body.grantId )
         => lastGate.outcome = "LegalNoticeRequired" )

\* the doctor acknowledged grant 1 of patient1 and passed the gate; the
\* patient applied again, and the doctor's next gate call, which read grant
\* 2, ended with LegalNoticeRequired
C19_Witness ==
  /\ "patient1" \in gatePassed
  /\ ackUrlFor(makeKey("patient1", DOCTOR_WEBID, HealthContainerUrl("patient1")), 1)
       \in DOMAIN ackStore
  /\ GateFinished
  /\ lastGate.patient = "patient1"
  /\ lastGate.st.status = 200
  /\ lastGate.st.body.grantId = 2
  /\ lastGate.outcome = "LegalNoticeRequired"

\* C20: the notice is put up with the grant-state record its gateOrThrow
\* call read, and an acknowledgement that is written carries the terms
\* version and the terms hash of that record, whatever the terms of the
\* running build and the live terms document are.
C20_AckTermsFromState ==
  [][ /\ (pendingGrant' # pendingGrant /\ pendingGrant' # Null) =>
           /\ lastGate'.outcome = "LegalNoticeRequired"
           /\ lastGate'.st.status = 200
           /\ pendingGrant' = lastGate'.st.body
      /\ ( /\ lastOp' # lastOp
           /\ lastOp'.op = "acknowledgeGrant"
           /\ lastOp'.ackWritten ) =>
           /\ pendingGrant # Null
           /\ lastOp'.grantUrl = pendingGrant.activeGrantUrl
           /\ ackStore'[lastOp'.grantUrl].acknowledgedBy = DOCTOR_WEBID
           /\ ackStore'[lastOp'.grantUrl].termsVersion = pendingGrant.termsVersion
           /\ ackStore'[lastOp'.grantUrl].termsHash = pendingGrant.termsHash
    ]_vars

\* an acknowledgement is stored whose terms are those of the grant, which
\* was issued under earlier terms than the live ones
C20_Witness ==
  /\ lastOp.op = "acknowledgeGrant"
  /\ lastOp.ackWritten
  /\ lastOp.grantUrl \in DOMAIN ackStore
  /\ ackStore[lastOp.grantUrl].termsVersion = EarlierGrant.termsVersion
  /\ ackStore[lastOp.grantUrl].termsHash = EarlierGrant.termsHash
  /\ EarlierGrant.termsVersion # TERMS_VERSION
  /\ EarlierGrant.termsHash # TermsHashNow
  /\ termsStore[termsUrl] = TERMS_TEXT

\* C21: an apply with doctorCanReadWrite unset that returns has called
\* revokeActiveGrant.  On a triple with no state record the grant store and
\* the audit trail stay as they are.  On a triple with a record, active or
\* revoked, the record is written back with the status revoked and the
\* reading of the clock, no other record changes, and the audit trail gains
\* exactly one event, a REVOKE that carries the grant id of the record.
C21_RevokeEffect ==
  [][ \A p \in PATIENTS :
        (\E em \in BOOLEAN : PatientApply(p, FALSE, em, TRUE, "returns")) =>
          LET url   == TripleUrl(p)
              added == (DOMAIN auditStore') \ (DOMAIN auditStore)
          IN
          /\ lastOp'.op = "revokeActiveGrant"
          /\ \A u \in DOMAIN auditStore :
               u \in DOMAIN auditStore' /\ auditStore'[u] = auditStore[u]
          /\ IF url \notin DOMAIN grantStore
               THEN /\ grantStore' = grantStore
                    /\ added = {}
               ELSE /\ DOMAIN grantStore' = DOMAIN grantStore
                    /\ \A u \in (DOMAIN grantStore) \ {url} :
                         grantStore'[u] = grantStore[u]
                    /\ grantStore'[url].status = "revoked"
                    /\ grantStore'[url].updatedAt = nowIso
                    /\ Cardinality(added) = 1
                    /\ \A u \in added :
                         /\ auditStore'[u].type = "REVOKE"
                         /\ auditStore'[u].grantId = grantStore[url].grantId
    ]_vars

\* the trail holds two REVOKE events of one grant: the second revocation
\* met a record that was revoked already; and the other patient's triple,
\* which has no record, was revoked with nothing written
C21_Witness ==
  /\ \E u \in DOMAIN auditStore, v \in DOMAIN auditStore :
       /\ u # v
       /\ auditStore[u].type = "REVOKE"
       /\ auditStore[v].type = "REVOKE"
       /\ auditStore[u].grantId = auditStore[v].grantId
  /\ lastOp.op = "revokeActiveGrant"
  /\ lastOp.result = "returned"
  /\ lastOp.grantId = NoId
  /\ TripleUrl(lastOp.patient) \notin DOMAIN grantStore

\* C22: a step that is an apply calling revokeActiveGrant leaves every
\* acknowledgement resource as it is, and the state record it writes has the
\* fields of the record it read, each with the value it had, but for the
\* status and the timestamp.
C22_RevokeKeepsRest ==
  [][ \A p \in PATIENTS :
        (\E em \in BOOLEAN : PatientApply(p, FALSE, em, TRUE, "returns")) =>
          LET url == TripleUrl(p) IN
          /\ ackStore' = ackStore
          /\ url \in DOMAIN grantStore =>
               /\ DOMAIN grantStore'[url] = DOMAIN grantStore[url]
               /\ \A k \in {"grantId", "activeGrantUrl", "termsVersion",
                            "termsHash", "termsUrl", "key", "patientWebId",
                            "doctorWebId", "scopeUrl"} :
                    /\ k \in DOMAIN grantStore[url]
                    /\ grantStore'[url][k] = grantStore[url][k]
               /\ (DOMAIN grantStore[url]) \ {"grantId", "activeGrantUrl",
                     "termsVersion", "termsHash", "termsUrl", "key",
                     "patientWebId", "doctorWebId", "scopeUrl"}
                    = {"status", "updatedAt"}
    ]_vars

\* an acknowledged grant was revoked: the record is revoked and names the
\* acknowledgement, which is still where the doctor wrote it
C22_Witness ==
  /\ lastOp.op = "revokeActiveGrant"
  /\ lastOp.result = "returned"
  /\ lastOp.grantUrl \in DOMAIN ackStore
  /\ ackStore[lastOp.grantUrl].acknowledgedBy = DOCTOR_WEBID
  /\ grantStore[TripleUrl(lastOp.patient)].status = "revoked"
  /\ grantStore[TripleUrl(lastOp.patient)].activeGrantUrl = lastOp.grantUrl

\* C23: a revocation check reads the grant state only while the doctor is
\* logged in and has data loaded: the full record or a file list is there
\* when the check starts.
C23_PollOnlyWithData ==
  [][ (pollPc = "idle" /\ pollPc' = "read") =>
        /\ loggedIn
        /\ fullRecord # Null \/ patientFiles # << >>
    ]_vars

\* C24: a step of a load sequence that was abandoned when the patient
\* changed writes no UI state: the full record, its status and error, the
\* file list and its flags, the access toggles, the pending grant, the
\* notice text and the visibility of the notice stay as they are.
C24_AbandonedWritesNothing ==
  [][ StaleGate => UNCHANGED <<gateVars, dataVars, toggles>> ]_vars

\* C25: a check is started only by a poller that runs, for the patient
\* selected at that moment, and the check of a poller that was torn down
\* never invokes onRevoked, whatever state it observes: it changes neither
\* the data nor the gate's state of the new context.
C25_TornDownPollerSilent ==
  [][ /\ (pollPc = "idle" /\ pollPc' = "read") => PollerRuns
      /\ StalePoll => UNCHANGED <<gateVars, dataVars>>
    ]_vars

\* the check of the poller torn down for patient2 has observed that there
\* is no active grant, and the record of patient1 is still on the screen
C25_Witness ==
  /\ stalePoll # Null
  /\ stalePoll.pc = "done"
  /\ stalePoll.patient = "patient2"
  /\ stalePoll.st = Null
  /\ selectedPatient = "patient1"
  /\ fullRecord # Null

\* C26: when the selected patient changes, all UI state of the session is
\* back at its initial value before the new load starts: the full record,
\* its status and error, the file list and its error, the access toggles,
\* and the pending grant, the notice text and the visibility of the notice.
C26_ContextChangeResetsAll ==
  [][ selectedPatient' # selectedPatient =>
        /\ fullRecord' = Null
        /\ fullRecordStatus' = NoStatus
        /\ fullRecordError' = NoText
        /\ patientFiles' = << >>
        /\ filesError' = NoText
        /\ toggles' = [doctorCanReadWrite |-> FALSE, emergencyCanRead |-> FALSE]
        /\ pendingGrant' = Null
        /\ legalNoticeText' = ""
        /\ showLegalNotice' = FALSE
    ]_vars

C28_CreateOnlyForPatient ==
  [][ (lastOp' # lastOp /\ lastOp'.op = "load") =>
        /\ lastOp'.role = "governance" => lastOp'.requests = << >>
        /\ lastOp'.role # "patient" =>
             /\ podStore' = podStore
             /\ \A i \in 1..Len(lastOp'.requests) : lastOp'.requests[i][1] = "GET"
             /\ lastOp'.get = 404 => lastOp'.status = 404 /\ lastOp'.data = Null
        /\ podStore' # podStore =>
             /\ lastOp'.role = "patient"
             /\ lastOp'.get = 404
             /\ RecordUrl(lastOp'.patient) \notin DOMAIN podStore
             /\ podStore' = Put(podStore, RecordUrl(lastOp'.patient), emptyFullRecord)
    ]_vars

\* patient2 has written the default record to a pod that had none, and the
\* nurse's load of patient1, whose record is absent, came back with status
\* 404 and no data
C28_Witness ==
  /\ RecordUrl("patient2") \in DOMAIN podStore
  /\ podStore[RecordUrl("patient2")] = emptyFullRecord
  /\ lastOp.op = "load"
  /\ lastOp.role = "nurse"
  /\ lastOp.patient = "patient1"
  /\ lastOp.get = 404
  /\ lastOp.status = 404
  /\ lastOp.data = Null
  /\ RecordUrl("patient1") \notin DOMAIN podStore

\* C29: of two bootstrap calls that run at once and create the same
\* containers, neither ends with an exception.
C29_RacingBootstrapsComplete ==
  \A c \in Racers : racers[c].step # "failed"

\* the list a files resource holds, the empty list when it is absent
StoredFiles(store, p) ==
  IF FilesUrl(p) \in DOMAIN store THEN store[FilesUrl(p)] ELSE << >>

\* C30: every change of a files resource comes from the list stored at that
\* moment: it is that list with one entry appended or with the entries of
\* one id removed (an edit of an entry keeps the ids of the stored list);
\* no update stores a list derived from a copy held in the browser.
C30_UpdateFromStoredList ==
  [][ \A p \in PATIENTS :
        LET old == StoredFiles(podStore, p)
            new == StoredFiles(podStore', p)
        IN new # old =>
             \E id \in 1..MaxListed : new = Append(old, id) \/ new = RemoveId(old, id)
    ]_vars

\* the entries of a list
Entries(files) == {files[i] : i \in 1..Len(files)}

\* C31: when two add or delete calls on one files resource both read before
\* either writes and both have made their PUT, both have returned normally
\* and the resource holds exactly the list the later one sent, which is its
\* own change made on the list both read: an entry the earlier one added is
\* not in it, and an entry the earlier one deleted is still in it unless the
\* later one deleted that entry.
C31_LastWriterWins ==
  \A w \in Editors :
    LET later   == editors[w]
        earlier == editors[3 - w]
    IN
    ( /\ later.overlaps \/ earlier.overlaps
      /\ later.patient = earlier.patient
      /\ later.pc \in {"done", "failed"}
      /\ earlier.pc \in {"done", "failed"}
      /\ later.order # 1 )
    =>
      LET stored == podStore[FilesUrl(later.patient)] IN
      /\ later.pc = "done" /\ earlier.pc = "done"
      /\ later.order = 2 /\ earlier.order = 1
      /\ stored = later.body
      /\ later.seen = earlier.seen
      /\ stored = IF later.op = "add" THEN Append(earlier.seen, later.fileId)
                  ELSE RemoveId(earlier.seen, later.fileId)
      /\ earlier.op = "add" => earlier.fileId \notin Entries(stored)
      /\ ( /\ earlier.op = "delete"
           /\ earlier.fileId \in Entries(earlier.seen)
           /\ ~(later.op = "delete" /\ later.fileId = earlier.fileId) )
         => earlier.fileId \in Entries(stored)

\* both calls read the list <<1>>, the first added an entry and returned,
\* the second deleted entry 1 and returned: the resource holds the empty
\* list, the added entry is gone
C31_Witness ==
  \E w \in Editors :
    /\ editors[w].overlaps
    /\ editors[w].pc = "done" /\ editors[3 - w].pc = "done"
    /\ editors[3 - w].order = 1 /\ editors[w].order = 2
    /\ editors[3 - w].op = "add" /\ editors[w].op = "delete"
    /\ editors[w].seen = <<1>> /\ editors[w].fileId = 1
    /\ podStore[FilesUrl("patient1")] = << >>

\* the operation that finished last is a listAuditEvents call whose member
\* reads were answered one by one
Listed32 == lastOp.op = "listAuditEvents" /\ "answers" \in DOMAIN lastOp

\* the members a call could read: the listing named them and their read was
\* answered with the stored event
Read32 ==
  {u \in lastOp.members : lastOp.answers[u] = [status |-> 200, body |-> auditStore[u]]}

C33_BoundedFanOut ==
  [][ /\ Cardinality(fetches'.inFlight) <= 15
      /\ fetches'.inFlight \subseteq
           {u \in 1..fetches'.members : fetches'.i < u /\ u <= fetches'.i + 15}
      /\ fetches'.inFlight \ fetches.inFlight # {} =>
           /\ fetches.inFlight = {}
           /\ fetches'.inFlight = {u \in 1..fetches.members :
                                     fetches.i < u /\ u <= fetches.i + 15}
    ]_vars

\* seventeen members were found, the fifteen reads of the first chunk have
\* settled and the two of the second chunk are in flight
C33_Witness ==
  /\ fetches.members = 17
  /\ fetches.i = 15
  /\ fetches.inFlight = {16, 17}

\* some stored audit event has the type and names patient, doctor and scope
Audited(type, patientWebId, doctorWebId, scopeUrl) ==
  \E u \in DOMAIN auditStore :
    /\ auditStore[u].type = type
    /\ auditStore[u].patientWebId = patientWebId
    /\ auditStore[u].doctorWebId = doctorWebId
    /\ auditStore[u].scopeUrl = scopeUrl

\* C34: whenever no governance call is under way, every stored grant state
\* that is active has a GRANT event, every one that is revoked a REVOKE
\* event, and every stored acknowledgement a NOTICE_ACK event, each for the
\* patient, doctor and scope of the record (of the grant the
\* acknowledgement belongs to).
C34_TransitionsAudited ==
  /\ \A u \in DOMAIN grantStore :
       LET st == grantStore[u] IN
       /\ st.status = "active" =>
            Audited("GRANT", st.patientWebId, st.doctorWebId, st.scopeUrl)
       /\ st.status = "revoked" =>
            Audited("REVOKE", st.patientWebId, st.doctorWebId, st.scopeUrl)
  /\ \A a \in DOMAIN ackStore :
       \E u \in DOMAIN grantStore :
         LET st == grantStore[u] IN
         Audited("NOTICE_ACK", st.patientWebId, st.doctorWebId, st.scopeUrl)

\* the access-control document of p is the one built from the check boxes
AcrOfToggles(store, p, t) ==
  /\ AcrUrl(p) \in DOMAIN store
  /\ store[AcrUrl(p)] = AcrTurtle(AccessOptions(p, t.doctorCanReadWrite,
                                                t.emergencyCanRead, FALSE, FALSE, TRUE))

\* C35: what an apply action of a patient leaves is a prefix of: the
\* access-control document PUT, the grant state written (active when the
\* doctor flag is set, revoked when not), the audit event PUT (GRANT or
\* REVOKE).  When the PUT of the document fails, grant states and audit log
\* are as before; a step that writes a grant state has stored the document
\* of the flags; a step that writes an audit event has written the state.
C35_ApplyOrder ==
  [][ \A p \in PATIENTS, doc \in BOOLEAN, em \in BOOLEAN, acrOk \in BOOLEAN,
         o \in {"stateGetFails", "statePutFails", "auditPutFails", "returns"} :
        PatientApply(p, doc, em, acrOk, o) =>
          LET url == TripleUrl(p) IN
          /\ ~acrOk => grantStore' = grantStore /\ auditStore' = auditStore
          /\ grantStore' # grantStore =>
               /\ AcrOfToggles(acrStore', p, toggles')
               /\ grantStore'[url].status = IF doc THEN "active" ELSE "revoked"
          /\ o \in {"stateGetFails", "statePutFails"} =>
               grantStore' = grantStore /\ auditStore' = auditStore
          /\ auditStore' # auditStore =>
               /\ AcrOfToggles(acrStore', p, toggles')
               /\ url \in DOMAIN grantStore'
               /\ grantStore'[url].status = IF doc THEN "active" ELSE "revoked"
               /\ \E u \in (DOMAIN auditStore') \ (DOMAIN auditStore) :
                    /\ auditStore'[u].type = IF doc THEN "GRANT" ELSE "REVOKE"
                    /\ auditStore'[u].grantId = grantStore'[url].grantId
    ]_vars

\* the doctor flag was set and applied, the PUT of the access-control
\* document failed: no document, no grant state, no event but bootstrap's
C35_Witness ==
  /\ toggles.doctorCanReadWrite
  /\ AcrUrl("patient1") \notin DOMAIN acrStore
  /\ grantStore = Empty
  /\ DOMAIN auditStore = {auditUrl(0)}

\* the triples of identities and scopes of the configuration
Triples ==
  {<<p, d, HealthContainerUrl(q)>> :
     p \in PATIENTS, q \in PATIENTS,
     d \in {DOCTOR_WEBID, EMERGENCY_WEBID, PHARMACY_WEBID, NURSE_WEBID}}

C37_BootstrapIdempotent ==
  [][ ( /\ lastOp.op = "bootstrapGovernanceStore"
        /\ lastOp.result = "returned"
        /\ lastOp' # lastOp
        /\ lastOp'.op = "bootstrapGovernanceStore"
        /\ lastOp'.failAt = 0 )
      => /\ lastOp'.result = "returned"
         /\ <<govContainers', govAcrStore', termsStore'>> =
              <<govContainers, govAcrStore, termsStore>>
         /\ auditStore' = auditStore
         /\ Cardinality({u \in DOMAIN auditStore' :
                           auditStore'[u].actorWebId = GOVERNANCE_WEBID}) = 1
    ]_vars

\* C38: an acceptNotice call that finds a pending grant writes no grant
\* state; it stores the acknowledgement at the location of the pending
\* grant, with the terms of the pending grant, and adds one NOTICE_ACK event
\* that names that location, whatever grant state is stored by then.  And a
\* gateOrThrow call that reads an active grant with nothing stored at its
\* own location ends with LegalNoticeRequired and makes that grant the
\* pending one.
C38_AcceptUsesPendingGrant ==
  [][ /\ ( /\ AcceptNotice("returns")
           /\ pendingGrant # Null
           /\ pendingGrant.activeGrantUrl # NoUrl ) =>
           /\ grantStore' = grantStore
           /\ DOMAIN ackStore' = DOMAIN ackStore \cup {pendingGrant.activeGrantUrl}
           /\ \A u \in DOMAIN ackStore :
                u # pendingGrant.activeGrantUrl => ackStore'[u] = ackStore[u]
           /\ ackStore'[pendingGrant.activeGrantUrl].acknowledgedBy = DOCTOR_WEBID
           /\ ackStore'[pendingGrant.activeGrantUrl].termsVersion =
                pendingGrant.termsVersion
           /\ ackStore'[pendingGrant.activeGrantUrl].termsHash =
                pendingGrant.termsHash
           /\ \E u \in DOMAIN auditStore' :
                /\ DOMAIN auditStore' = DOMAIN auditStore \cup {u}
                /\ u \notin DOMAIN auditStore
                /\ auditStore'[u].type = "NOTICE_ACK"
                /\ auditStore'[u].ackUrl = pendingGrant.activeGrantUrl
                /\ auditStore'[u].patientWebId = pendingGrant.patientWebId
                /\ auditStore'[u].scopeUrl = pendingGrant.scopeUrl
                /\ auditStore'[u].termsVersion = pendingGrant.termsVersion
                /\ auditStore'[u].termsHash = pendingGrant.termsHash
      /\ ( /\ lastGate' # lastGate
           /\ lastGate'.outcome # "none"
           /\ lastGate'.st.status = 200
           /\ lastGate'.st.body.status = "active"
           /\ lastGate'.st.body.activeGrantUrl # NoUrl
           /\ lastGate'.ack.status = 404 ) =>
           /\ lastGate'.outcome = "LegalNoticeRequired"
           /\ pendingGrant' = lastGate'.st.body
           /\ showLegalNotice'
    ]_vars

\* the notice of grant 1 was accepted after the patient had replaced grant 1
\* by grant 2: the acknowledgement lies at the location of grant 1, nothing
\* at the location of grant 2, which is the stored and active grant
C38_Witness ==
  /\ lastOp.op = "acknowledgeGrant"
  /\ lastOp.result = "returned"
  /\ lastOp.grantId = 1
  /\ lastOp.grantUrl \in DOMAIN ackStore
  /\ \E u \in DOMAIN grantStore :
       /\ grantStore[u].grantId = 2
       /\ grantStore[u].status = "active"
       /\ grantStore[u].patientWebId = lastOp.patient
       /\ grantStore[u].activeGrantUrl # lastOp.grantUrl
       /\ grantStore[u].activeGrantUrl \notin DOMAIN ackStore

\* C39: a revocation check that gets its answer holds the grant state that
\* is stored (a check whose read fails holds nothing and changes nothing);
\* its second half clears the doctor's data when that state is absent or
\* not active and leaves gate and data as they are when it is active,
\* whichever grant it is and whether or not that grant was acknowledged;
\* and nothing else puts up the revocation message.
C39_PollerLooksAtStatusOnly ==
  [][ /\ (pollPc = "idle" /\ pollPc' = "read") =>
           LET url == TripleUrl(selectedPatient) IN
           pollSt' = IF url \in DOMAIN grantStore THEN grantStore[url] ELSE Null
      /\ PollApply =>
           IF pollSt = Null \/ pollSt.status # "active"
             THEN /\ fullRecord' = Null
                  /\ patientFiles' = << >>
                  /\ fullRecordError' = MsgRevoked
             ELSE UNCHANGED <<gateVars, dataVars>>
      /\ (fullRecordError' = MsgRevoked /\ fullRecordError # MsgRevoked) =>
           /\ pollPc = "read"
           /\ pollSt = Null \/ pollSt.status # "active"
    ]_vars

\* the record loaded under grant 1 is on display, patient1 has revoked and
\* granted again, and a check has read grant 2, active and with nothing at
\* its acknowledgement location: its second half leaves the record there
C39_Witness ==
  /\ pollPc = "read"
  /\ pollSt # Null
  /\ pollSt.status = "active"
  /\ pollSt.grantId = 2
  /\ pollSt.activeGrantUrl \notin DOMAIN ackStore
  /\ GateGrant.activeGrantUrl \in DOMAIN ackStore
  /\ fullRecord # Null
  /\ gatePassed # {}

\* ------------------------------------------------------------------------
\* C40
\* ------------------------------------------------------------------------

\* the resources of store that a step wrote
Written(store, storeNext) ==
  {u \in DOMAIN storeNext : u \notin DOMAIN store \/ storeNext[u] # store[u]}

\* C40: access control, createGrantAndActivate and revokeActiveGrant run
\* for the logged-in identity only.  Every step that writes an access
\* control resource, a grant state or an audit event is taken while a
\* patient is logged in, and it writes the access control resource of that
\* patient, grant states whose patient is that identity and audit events
\* whose patient and actor are that identity.  In every state the patient
\* role resolves the logged-in patient whatever patient is selected,
\* governance resolves no patient, and the apply action is offered only to
\* the patient role with the effective patient equal to the logged-in
\* identity.
C40_WritesForLoggedInPatient ==
  [][ /\ (Written(acrStore, acrStore') # {}
            \/ Written(grantStore, grantStore') # {}
            \/ Written(auditStore, auditStore') # {})
        => /\ context.loggedIn
           /\ detectRole(context.webId) = "patient"
           /\ Written(acrStore, acrStore') \subseteq {AcrUrl(context.webId)}
           /\ \A u \in Written(grantStore, grantStore') :
                grantStore'[u].patientWebId = context.webId
           /\ \A u \in Written(auditStore, auditStore') :
                /\ auditStore'[u].patientWebId = context.webId
                /\ auditStore'[u].actorWebId = context.webId
      /\ (context.loggedIn /\ detectRole(context.webId) = "patient")
           => EffectivePatient = context.webId
      /\ (context.loggedIn /\ detectRole(context.webId) = "governance")
           => EffectivePatient = NoText
      /\ (context.loggedIn
            /\ isOwner(detectRole(context.webId), EffectivePatient, context.webId))
           => /\ detectRole(context.webId) = "patient"
              /\ EffectivePatient = context.webId
    ]_vars

\* patient2 is logged in with patient1 selected, and the grant of patient2
\* is stored while none is stored for patient1
C40_Witness ==
  /\ context.loggedIn
  /\ context.webId = "patient2"
  /\ context.selectedPatient = "patient1"
  /\ TripleUrl("patient2") \in DOMAIN grantStore
  /\ TripleUrl("patient1") \notin DOMAIN grantStore
  /\ AcrUrl("patient2") \in DOMAIN acrStore

====
